---- MODULE Spec2Model ----
(***************************************************************************)
(* A model of the gelbeseiten.scraper lead pipeline.                       *)
(*                                                                         *)
(* The module holds several state machines that share one variable tuple   *)
(* and                                                                     *)
(* leave each other's variables alone:                                     *)
(*   SpecPipeline  Pipeline.run (src/src/pipeline/orchestrator.py)         *)
(*   SpecMulti     run_multi_branche_scrape and main (src/main.py)         *)
(*   SpecLimiter   RateLimiter with two callers (src/src/client/           *)
(*                 rate_limiter.py)                                        *)
(*   SpecFetch     HTTPClient.get_with_retry (src/src/client/http.py)      *)
(*   SpecFetchLive SpecFetch with every get and retry sleep coming to an   *)
(*                 end                                                     *)
(*   SpecProxy     ProxyManager (src/src/client/proxy_manager.py)          *)
(*   SpecScanner   WebsiteScanner (src/src/analyzer/)                      *)
(*   SpecMatcher   the duplicate test, the merge and LeadAggregator        *)
(*                 (src/src/utils/matching.py, src/src/pipeline/           *)
(*                 aggregator.py)                                          *)
(*   SpecFilter    LeadFilter (src/src/pipeline/filters.py)                *)
(***************************************************************************)
EXTENDS Integers, Sequences, FiniteSets, TLC

(***************************************************************************)
(* Bounds of the model.                                                    *)
(***************************************************************************)
\* directory listings one search can yield
MaxListings == 2
\* map-service leads one search can yield
MaxGmLeads == 1
\* length of BRANCHEN_LISTE
MaxCategories == 4
\* the checkpoint interval N (10 in main.py, line 394), scaled down
CheckpointEvery == 2
\* runs of the program for one city
MaxRuns == 2
\* leads one category's pipeline can return
MaxBrancheLeads == 1
\* distinct businesses
MaxKeys == 2
\* the last instant of the clock
MaxTime == 6
\* requests the callers make in all
MaxRequests == 3
\* largest max_retries argument of get_with_retry
MaxRetriesParam == 4
\* requests of one HTTPClient after which no new get_with_retry starts
MaxClientRequests == 12
\* proxies in the list
MaxProxies == 2
\* successes reported for a proxy
MaxProxyReports == 1
\* calls of WebsiteScanner.scan on one scanner
MaxScans == 2

VARIABLES
    \* ---- Pipeline.run ----
    p_pc,            \* position inside Pipeline.run
    sources,         \* the sources argument of run
    stealth,         \* settings.stealth.enabled: acquire may raise SessionLimitReached
    slr_is_exception,\* whether SessionLimitReached derives from Exception, so that an
                     \* "except Exception" below run catches it (its class is not in src/)
    include_modern,  \* settings.filter.include_modern_website
    min_quality,     \* settings.filter.min_quality_score
    listings,        \* GelbeSeitenScraper.scrape_leads: the collected listings
    idx,             \* loop index of the running stage
    scraper_leads,   \* GelbeSeitenScraper.scrape_leads: its local list leads
    partial_leads,   \* GelbeSeitenScraper._partial_leads
    gs_leads,        \* run: gs_leads
    gm_leads,        \* run: gm_leads
    leads,           \* run: leads (meaningful once leads_defined)
    leads_defined,   \* whether run's local name leads is bound ('leads' in dir())
    result,          \* the ScrapingResult: [leads, fehler]
    http_client,     \* "open" or "closed"
    browser_client,  \* "none", "started" or "closed"
    exit_path,       \* how run left: "none", "normal", "no_leads", "session_limit", "error", "interrupt"
    stage_log,       \* history: the stages entered and left, in order
    slr_raised,      \* history: a SessionLimitReached was raised by an acquire
    slr_materialized,\* history: ids of the leads materialized when it was raised
    scraper_errors,  \* GelbeSeitenScraper._errors
    \* ---- run_multi_branche_scrape and main ----
    m_pc,            \* "idle", "loop", "done" (main returned after the loop), "exit1"
                     \* (main returned 1 after an interrupt), "crashed" (traceback)
    branchen,        \* the category list of the running run
    m_idx,           \* idx of enumerate(branchen, 1): the position worked on next
    all_leads,       \* accumulated leads
    processed_branchen, \* the set of processed categories
    debug,           \* args.debug
    checkpoint_file, \* .checkpoint_leads_<stadt>.json: [exists, data]
    processed_branchen_file, \* .checkpoint_branchen_<stadt>.json: [exists, data]
    exit_code,       \* what main returned, -1 while it runs
    runs,            \* number of runs started
    start_checkpoint,\* history: the leads file as the run found it
    start_processed, \* history: the processed file as the run found it
    scraped,         \* history: categories whose pipeline this run started
    order,           \* history: categories this run marked processed, in order
    branche_leads,   \* the leads of the category worked on last
    raised,          \* history: categories of this run whose try block raised an Exception
    \* ---- RateLimiter and its callers ----
    lock,            \* RateLimiter._lock: "free" or the caller that holds it
    now,             \* time.time()
    l_pc,            \* per caller: "idle", "call_wait", "sleep_cooldown", "sleep_pace",
                     \* "sleep_pause", "in_flight", "call_report_success", "call_report_error"
    l_host,          \* per caller: the domain of its request
    l_status,        \* per caller: the status it is about to report
    wake_at,         \* per caller: when its time.sleep ends
    domain_states,   \* RateLimiter._domain_states
    global_request_count, \* RateLimiter._global_request_count
    max_deadline,    \* history, per host: the latest cooldown deadline a report set
    last_admit,      \* history, per host: the last return of wait: when, the deadline
                     \* in force, the long pause it slept, the request_count it found
    l_pause,         \* per caller: the long pause its running wait has added
    \* ---- HTTPClient.get_with_retry ----
    f_pc,            \* "idle", "loop", "retry_sleep", "returned"
    f_max_retries,   \* get_with_retry: max_retries
    f_attempt,       \* get_with_retry: attempt
    responses,       \* history: the status of every get of this call, in order
    wire,            \* history: how often the adapter sent the request, per get
    f_request_count, \* HTTPClient._request_count
    ua_rotations,    \* number of calls of _rotate_user_agent
    since_rotation,  \* history: requests issued since the last _rotate_user_agent
    \* ---- ProxyManager ----
    px_enabled,      \* ProxyManager._enabled
    proxies,         \* ProxyManager._proxies
    px_current_index,\* ProxyManager._current_index
    px_request_count,\* ProxyManager._request_count
    last_next,       \* history: what get_next_proxy returned (0 for None) when it
                     \* was the last operation
    last_op,         \* history: the last operation, its arguments and the proxies
                     \* that were unblocked before it
    \* ---- WebsiteScanner ----
    sc_pc,           \* position inside scan: "idle", "stage2", "stage3", "returned",
                     \* "updated" (update_lead_analysis applied the result)
    depth,           \* scan: the depth argument
    url_result,      \* scan: url_result
    header_result,   \* scan: header_result (NoResult until stage 2 ran)
    html_result,     \* scan: html_result (NoResult until stage 3 ran)
    all_signals,     \* scan: all_signals
    check_methods,   \* scan: check_methods
    scan_result,     \* the WebsiteScanResult returned (NoScan before the return)
    lead_analysis,   \* the lead's WebsiteAnalysis
    scanned_count,   \* WebsiteScanner._scanned_count
    results_by_type, \* WebsiteScanner._results_by_type
    probes,          \* history: the requests the running scan issued, in order
    \* ---- matching utilities and LeadAggregator ----
    mt_pc,           \* the call that returned last: "idle", "normalized", "renormalized",
                     \* "matched", "merged", "aggregated"
    phone,           \* normalize_phone: its argument
    digits,          \* normalize_phone: what it returned
    digits_again,    \* what normalize_phone returned for digits
    lead_a,          \* is_duplicate: lead_a, merge_leads: primary
    lead_b,          \* is_duplicate: lead_b, merge_leads: secondary
    match_result,    \* the MatchResult of is_duplicate(lead_a, lead_b)
    merged,          \* what merge_leads(lead_a, lead_b) returned
    agg_gs,          \* aggregate: gs_leads
    agg_gm,          \* aggregate: gm_leads
    agg_result,      \* aggregate: the list it returned
    agg_stats,       \* LeadAggregator._stats
    \* ---- LeadFilter and stage 4 ----
    fl_pc,           \* "idle" or "returned" (_stage4_filter_leads returned)
    filter_config,   \* LeadFilter._config
    custom_filters,  \* LeadFilter._custom_filters
    stage4_leads,    \* _stage4_filter_leads: leads
    filter_results,  \* history: what should_include returned, lead by lead
    filtered,        \* what filter_leads returned
    stage4_result,   \* what _stage4_filter_leads returned
    exclusion_reasons, \* LeadFilter._exclusion_reasons
    total_processed, \* LeadFilter._total_processed
    total_included   \* LeadFilter._total_included

pipelineVars == <<p_pc, sources, stealth, slr_is_exception, include_modern, min_quality, listings, idx,
                  scraper_leads, partial_leads, gs_leads, gm_leads, leads,
                  leads_defined, result, http_client, browser_client, exit_path,
                  stage_log, slr_raised, slr_materialized, scraper_errors>>

multiVars == <<m_pc, branchen, m_idx, all_leads, processed_branchen, debug, checkpoint_file,
               processed_branchen_file, exit_code, runs, start_checkpoint,
               start_processed, scraped, order, branche_leads, raised>>

limiterVars == <<lock, now, l_pc, l_host, l_status, wake_at, domain_states,
                 global_request_count, max_deadline, last_admit, l_pause>>

fetchVars == <<f_pc, f_max_retries, f_attempt, responses, wire, f_request_count, ua_rotations,
              since_rotation>>

proxyVars == <<px_enabled, proxies, px_current_index, px_request_count, last_next, last_op>>

scannerVars == <<sc_pc, depth, url_result, header_result, html_result, all_signals,
                check_methods, scan_result, lead_analysis, scanned_count,
                results_by_type, probes>>

matcherVars == <<mt_pc, phone, digits, digits_again, lead_a, lead_b, match_result, merged,
                 agg_gs, agg_gm, agg_result, agg_stats>>

filterVars == <<fl_pc, filter_config, custom_filters, stage4_leads, filter_results, filtered,
                stage4_result, exclusion_reasons, total_processed, total_included>>

vars == <<pipelineVars, multiVars, limiterVars, fetchVars, proxyVars, scannerVars, matcherVars,
          filterVars>>

\* what Pipeline.run leaves alone
notPipelineVars == <<multiVars, limiterVars, fetchVars, proxyVars, scannerVars, matcherVars, filterVars>>

\* what run_multi_branche_scrape leaves alone
notMultiVars == <<pipelineVars, limiterVars, fetchVars, proxyVars, scannerVars, matcherVars, filterVars>>

\* what the RateLimiter leaves alone
notLimiterVars == <<pipelineVars, multiVars, fetchVars, proxyVars, scannerVars, matcherVars, filterVars>>

\* what get_with_retry leaves alone
notFetchVars == <<pipelineVars, multiVars, limiterVars, proxyVars, scannerVars, matcherVars, filterVars>>

\* what the ProxyManager leaves alone
notProxyVars == <<pipelineVars, multiVars, limiterVars, fetchVars, scannerVars, matcherVars, filterVars>>

\* what the WebsiteScanner leaves alone
notScannerVars == <<pipelineVars, multiVars, limiterVars, fetchVars, proxyVars, matcherVars, filterVars>>

\* what the matching utilities and the LeadAggregator leave alone
notMatcherVars == <<pipelineVars, multiVars, limiterVars, fetchVars, proxyVars, scannerVars,
                   filterVars>>

\* what the LeadFilter leaves alone
notFilterVars == <<pipelineVars, multiVars, limiterVars, fetchVars, proxyVars, scannerVars,
                  matcherVars>>

(***************************************************************************)
(* Leads.  A lead is a record: id (which record it is), key (the business  *)
(* it describes: two leads with the same key are duplicates for the        *)
(* matcher), website_url (whether one is present), status (the             *)
(* WebsiteStatus of its website_analyse) and qs (its qualitaet_score).     *)
(***************************************************************************)
WebsiteStatus == {"keine", "alt", "modern", "unbekannt", "nicht_geprueft"}
TerminalStatus == WebsiteStatus \ {"nicht_geprueft"}

\* Lead.qualitaet_score for a lead that has a phone number and neither email,
\* address, rating, hours nor description: phone 20, website 15
qualitaet_score(website_url) == 20 + (IF website_url THEN 15 ELSE 0)

Ids(s) == {s[k].id : k \in 1..Len(s)}

\* DetailParser.parse: a lead with a website starts NICHT_GEPRUEFT, one without KEINE
InitialStatus(website_url) == IF website_url THEN "nicht_geprueft" ELSE "keine"

NewLead(id, key, website_url) ==
    [id |-> id, key |-> key, website_url |-> website_url,
     status |-> InitialStatus(website_url), qs |-> qualitaet_score(website_url)]

(***************************************************************************)
(* LeadFilter                                                              *)
(***************************************************************************)
\* LeadFilter._check_website_status with the default FilterConfig toggles
check_website_status(lead) ==
    CASE lead.status = "keine" -> TRUE
      [] lead.status = "alt" -> TRUE
      [] lead.status = "modern" -> include_modern
      [] lead.status = "unbekannt" -> TRUE
      [] OTHER -> TRUE

check_quality_score(lead) == lead.qs >= min_quality

should_include(lead) == check_website_status(lead) /\ check_quality_score(lead)

RECURSIVE filter_leads(_)
filter_leads(s) ==
    IF s = <<>> THEN <<>>
    ELSE IF should_include(Head(s)) THEN <<Head(s)>> \o filter_leads(Tail(s))
         ELSE filter_leads(Tail(s))

\* sorted(leads, key=qualitaet_score, reverse=True): a stable insertion
RECURSIVE InsertByQuality(_, _)
InsertByQuality(x, s) ==
    IF s = <<>> THEN <<x>>
    ELSE IF Head(s).qs >= x.qs THEN <<Head(s)>> \o InsertByQuality(x, Tail(s))
         ELSE <<x>> \o s

RECURSIVE sort_leads(_)
sort_leads(s) ==
    IF s = <<>> THEN <<>>
    ELSE InsertByQuality(s[Len(s)], sort_leads(SubSeq(s, 1, Len(s) - 1)))

stage4_filter_leads(s) == sort_leads(filter_leads(s))

(***************************************************************************)
(* LeadAggregator.aggregate with the matcher abstracted to equality of key *)
(***************************************************************************)
MatchIndex(res, gm) ==
    IF \E k \in 1..Len(res) : res[k].key = gm.key
    THEN CHOOSE k \in 1..Len(res) :
            /\ res[k].key = gm.key
            /\ \A j \in 1..(k - 1) : res[j].key # gm.key
    ELSE 0

\* mutant of merge_leads: a website taken from the secondary resets the status
merge_leads_resets_status(primary, secondary) ==
    [primary EXCEPT !.website_url = primary.website_url \/ secondary.website_url,
                    !.status = IF ~primary.website_url /\ secondary.website_url
                               THEN "nicht_geprueft" ELSE primary.status,
                    !.qs = qualitaet_score(primary.website_url \/ secondary.website_url)]

\* merge_leads: the primary wins, the secondary fills the website when absent
merge_leads(primary, secondary) ==
    [primary EXCEPT !.website_url = primary.website_url \/ secondary.website_url,
                    !.qs = qualitaet_score(primary.website_url \/ secondary.website_url)]

RECURSIVE aggregate(_, _)
aggregate(res, gms) ==
    IF gms = <<>> THEN res
    ELSE LET gm == Head(gms)
             k == MatchIndex(res, gm)
         IN  IF k > 0
             THEN aggregate([res EXCEPT ![k] = merge_leads(res[k], gm)], Tail(gms))
             ELSE aggregate(Append(res, gm), Tail(gms))

\* run, lines 233-239
stage2(gs, gm) == IF gs # <<>> /\ gm # <<>> THEN aggregate(gs, gm) ELSE gs \o gm

(***************************************************************************)
(* Pipeline.run: exits                                                     *)
(***************************************************************************)
\* mutant of cleanup: the browser client is left as it is
cleanup_leaves_browser(bc) == bc

\* Pipeline._cleanup: the state of the browser client afterwards
cleanup(bc) == IF bc = "started" THEN "closed" ELSE bc

\* run, "except SessionLimitReached": result.leads = leads if 'leads' in dir() else []
OnSessionLimitReached(res, defined, ls) ==
    [res EXCEPT !.leads = IF defined THEN ls ELSE <<>>]

\* run, "except Exception": result.fehler.append(str(e))
OnException(res) == [res EXCEPT !.fehler = Append(@, "exception")]

\* what run's handlers and its finally clause do with a raised condition
ResultAfter(kind) ==
    CASE kind = "SessionLimitReached" -> OnSessionLimitReached(result, leads_defined, leads)
      [] kind = "Exception" -> OnException(result)
      [] OTHER -> result

ExitOf(kind) ==
    CASE kind = "SessionLimitReached" -> "session_limit"
      [] kind = "Exception" -> "error"
      [] OTHER -> "interrupt"

\* the http client after run's finally clause
HttpAfterExit == "closed"

Leave(kind, bc) ==
    /\ result' = ResultAfter(kind)
    /\ exit_path' = ExitOf(kind)
    /\ p_pc' = IF kind = "KeyboardInterrupt" THEN "raised" ELSE "returned"
    /\ http_client' = HttpAfterExit
    /\ browser_client' = cleanup(bc)

\* the conditions a fetch through the rate governor can raise
Raisable == {"Exception", "KeyboardInterrupt"} \cup (IF stealth THEN {"SessionLimitReached"} ELSE {})

NoteSessionLimit(kind, ids) ==
    IF kind = "SessionLimitReached" /\ ~slr_raised
    THEN slr_raised' = TRUE /\ slr_materialized' = ids
    ELSE UNCHANGED <<slr_raised, slr_materialized>>

Materialized == Ids(scraper_leads) \cup Ids(gs_leads) \cup Ids(gm_leads)


Log(events) == stage_log' = stage_log \o events

GS == "gelbe_seiten"
GM == "google_maps"

\* run, lines 233-248: where run goes once both scrapes are done
AfterScrape == "stage2"

\* mutant of AfterAggregation: the website check is left out
AfterAggregation_skips_check == "stage4"

\* run, lines 241-248: with leads at hand the website check comes next
AfterAggregation == "stage3"

\* run, lines 251-253: the filter follows the website check
AfterWebsiteCheck == "stage4"

InitPipeline ==
    /\ p_pc = "stage1a_search"
    /\ sources \in {{GS}, {GM}, {GS, GM}}
    /\ stealth \in BOOLEAN
    /\ slr_is_exception \in (IF stealth THEN BOOLEAN ELSE {TRUE})
    /\ include_modern \in BOOLEAN
    /\ min_quality \in {0, 30}
    /\ listings = 0
    /\ idx = 1
    /\ scraper_leads = <<>>
    /\ partial_leads = <<>>
    /\ gs_leads = <<>>
    /\ gm_leads = <<>>
    /\ leads = <<>>
    /\ leads_defined = FALSE
    /\ result = [leads |-> <<>>, fehler |-> <<>>]
    /\ http_client = "open"
    /\ browser_client = "none"
    /\ exit_path = "none"
    /\ stage_log = <<>>
    /\ slr_raised = FALSE
    /\ slr_materialized = {}
    /\ scraper_errors = <<>>

\* run, line 222: the directory source is not asked for
Stage1aSkip ==
    /\ p_pc = "stage1a_search"
    /\ GS \notin sources
    /\ p_pc' = "stage1b"
    /\ UNCHANGED <<sources, stealth, slr_is_exception, include_modern, min_quality, listings, idx,
                   scraper_leads, partial_leads, gs_leads, gm_leads, leads,
                   leads_defined, result, http_client, browser_client, exit_path,
                   stage_log, slr_raised, slr_materialized>>
    /\ UNCHANGED scraper_errors

\* GelbeSeitenScraper.search, lines 104-113: what a page whose fetch failed after
\* the retries leaves in _errors
SearchError == "Fehler beim Laden von Seite"

\* GelbeSeitenScraper.scrape_detail, lines 247-251: the same for a detail page
DetailError == "Fehler beim Laden der Detailseite"

\* GelbeSeitenScraper.scrape_leads, line 173: listings = list(self.search(...));
\* every page is fetched through get_with_retry, outside the try of line 185.
\* A page that fails is noted in _errors; the first page failing ends the search
\* without listings, a later one is passed over.
Stage1aSearch ==
    /\ p_pc = "stage1a_search"
    /\ GS \in sources
    /\ \/ /\ \E n \in 0..MaxListings : listings' = n
          /\ p_pc' = "stage1a_detail"
          /\ idx' = 1
          /\ Log(<<"start_1a">>)
          /\ UNCHANGED <<result, http_client, browser_client, exit_path,
                         partial_leads, slr_raised, slr_materialized, scraper_errors>>
       \/ /\ \E n \in 0..MaxListings : listings' = n
          /\ scraper_errors' = Append(scraper_errors, SearchError)
          /\ p_pc' = "stage1a_detail"
          /\ idx' = 1
          /\ Log(<<"start_1a">>)
          /\ UNCHANGED <<result, http_client, browser_client, exit_path,
                         partial_leads, slr_raised, slr_materialized>>
       \/ /\ \E kind \in Raisable :
                /\ Leave(kind, browser_client)
                /\ NoteSessionLimit(kind, Materialized)
          /\ Log(<<"start_1a">>)
          /\ UNCHANGED <<listings, idx, partial_leads, scraper_errors>>
    /\ UNCHANGED <<sources, stealth, slr_is_exception, include_modern, min_quality, scraper_leads,
                   gs_leads, gm_leads, leads, leads_defined>>

\* GelbeSeitenScraper.scrape_leads, lines 185-219: one turn of the detail loop.
\* failed: the fetch of the detail page failed after the retries, scrape_detail
\* noted it in _errors and returned None, so that the listing fallback was asked
Stage1aDetail ==
    /\ p_pc = "stage1a_detail"
    /\ idx <= listings
    /\ \/ \* scrape_detail or the listing fallback gave a lead
          /\ \E w \in BOOLEAN :
                scraper_leads' = Append(scraper_leads, NewLead(idx, idx, w))
          /\ \E failed \in BOOLEAN :
                scraper_errors' = IF failed THEN Append(scraper_errors, DetailError)
                                  ELSE scraper_errors
          /\ idx' = idx + 1
          /\ UNCHANGED <<p_pc, result, http_client, browser_client, exit_path,
                         partial_leads, slr_raised, slr_materialized>>
       \/ \* neither gave one
          /\ \E failed \in BOOLEAN :
                scraper_errors' = IF failed THEN Append(scraper_errors, DetailError)
                                  ELSE scraper_errors
          /\ idx' = idx + 1
          /\ UNCHANGED <<p_pc, scraper_leads, result, http_client, browser_client,
                         exit_path, partial_leads, slr_raised, slr_materialized>>
       \/ \* the fetch raised
          /\ \E kind \in Raisable :
                /\ Leave(kind, browser_client)
                /\ NoteSessionLimit(kind, Materialized)
                /\ partial_leads' = IF kind = "SessionLimitReached"
                                    THEN scraper_leads ELSE partial_leads
          /\ UNCHANGED <<idx, scraper_leads, scraper_errors>>
    /\ UNCHANGED <<sources, stealth, slr_is_exception, include_modern, min_quality, listings,
                   gs_leads, gm_leads, leads, leads_defined, stage_log>>

\* scrape_leads returns; run, lines 224-228
Stage1aDone ==
    /\ p_pc = "stage1a_detail"
    /\ idx > listings
    /\ gs_leads' = scraper_leads
    /\ p_pc' = "stage1b"
    /\ Log(<<"end_1a">>)
    /\ UNCHANGED <<sources, stealth, slr_is_exception, include_modern, min_quality, listings, idx,
                   scraper_leads, partial_leads, gm_leads, leads, leads_defined,
                   result, http_client, browser_client, exit_path, slr_raised,
                   slr_materialized>>
    /\ UNCHANGED scraper_errors

\* the leads a map search can give: ids above the directory's, any business
GmLead(j, key, w) == NewLead(MaxListings + j, key, w)

GmLeadLists ==
    UNION { [1..n -> {GmLead(1, key, w) : key \in 1..(MaxListings + 1), w \in BOOLEAN}]
            : n \in 0..MaxGmLeads }

\* the j-th lead of a map search bears the id MaxListings + j
Numbered(s) == [j \in 1..Len(s) |-> [s[j] EXCEPT !.id = MaxListings + j]]

\* run, line 228: the map source is not asked for
Stage1bSkip ==
    /\ p_pc = "stage1b"
    /\ GM \notin sources
    /\ p_pc' = AfterScrape
    /\ UNCHANGED <<sources, stealth, slr_is_exception, include_modern, min_quality, listings, idx,
                   scraper_leads, partial_leads, gs_leads, gm_leads, leads,
                   leads_defined, result, http_client, browser_client, exit_path,
                   stage_log, slr_raised, slr_materialized>>
    /\ UNCHANGED scraper_errors

\* Pipeline._stage1b_scrape_google_maps: _init_google_maps starts the browser,
\* then GoogleMapsScraper.scrape_leads runs inside "try ... except Exception"
Stage1b ==
    /\ p_pc = "stage1b"
    /\ GM \in sources
    /\ Log(<<"start_1b", "end_1b">>)
    /\ \/ \* the scrape returns its leads
          /\ \E s \in GmLeadLists : gm_leads' = Numbered(s)
          /\ browser_client' = "started"
          /\ p_pc' = AfterScrape
          /\ UNCHANGED <<result, http_client, exit_path, slr_raised, slr_materialized>>
       \/ \* the scrape raised and line 351 caught it: no map leads
          /\ \E kind \in Raisable \ {"KeyboardInterrupt"} :
                /\ kind = "SessionLimitReached" => slr_is_exception
                /\ NoteSessionLimit(kind, Materialized)
          /\ gm_leads' = <<>>
          /\ browser_client' = "started"
          /\ p_pc' = AfterScrape
          /\ UNCHANGED <<result, http_client, exit_path>>
       \/ \* _init_google_maps raised (outside the try), or an interrupt came
          /\ \E kind \in {"Exception", "KeyboardInterrupt"} : Leave(kind, "started")
          /\ UNCHANGED <<gm_leads, slr_raised, slr_materialized>>
       \/ \* a session limit that "except Exception" does not catch
          /\ stealth /\ ~slr_is_exception
          /\ Leave("SessionLimitReached", "started")
          /\ NoteSessionLimit("SessionLimitReached", Materialized)
          /\ UNCHANGED gm_leads
    /\ UNCHANGED <<sources, stealth, slr_is_exception, include_modern, min_quality, listings, idx,
                   scraper_leads, partial_leads, gs_leads, leads, leads_defined>>
    /\ UNCHANGED scraper_errors

\* run, lines 233-248: aggregate, leave when there is no lead
Stage2 ==
    /\ p_pc = "stage2"
    /\ leads' = stage2(gs_leads, gm_leads)
    /\ leads_defined' = TRUE
    /\ idx' = 1
    /\ IF leads' = <<>>
       THEN /\ result' = [result EXCEPT !.fehler = Append(@, "Keine Leads gefunden")]
            /\ exit_path' = "no_leads"
            /\ p_pc' = "returned"
            /\ http_client' = HttpAfterExit
            /\ browser_client' = cleanup(browser_client)
            /\ Log(IF gs_leads # <<>> /\ gm_leads # <<>> THEN <<"start_2", "end_2">> ELSE <<>>)
       ELSE /\ p_pc' = AfterAggregation
            /\ Log((IF gs_leads # <<>> /\ gm_leads # <<>> THEN <<"start_2", "end_2">> ELSE <<>>)
                   \o (IF AfterAggregation = "stage3" THEN <<"start_3">> ELSE <<"start_4">>))
            /\ UNCHANGED <<result, exit_path, http_client, browser_client>>
    /\ UNCHANGED <<sources, stealth, slr_is_exception, include_modern, min_quality, listings,
                   scraper_leads, partial_leads, gs_leads, gm_leads, slr_raised,
                   slr_materialized>>
    /\ UNCHANGED scraper_errors

\* Pipeline._stage3_check_websites, lines 379-426: one turn of the loop
Stage3 ==
    /\ p_pc = "stage3"
    /\ idx <= Len(leads)
    /\ \/ \* lines 386-390: no website
          /\ ~leads[idx].website_url
          /\ leads' = [leads EXCEPT ![idx].status = "keine"]
          /\ idx' = idx + 1
          /\ UNCHANGED <<p_pc, result, http_client, browser_client, exit_path,
                         slr_raised, slr_materialized>>
       \/ \* lines 393-403: the scan gave a verdict
          /\ leads[idx].website_url
          /\ \E st \in {"alt", "modern", "unbekannt"} :
                leads' = [leads EXCEPT ![idx].status = st]
          /\ idx' = idx + 1
          /\ UNCHANGED <<p_pc, result, http_client, browser_client, exit_path,
                         slr_raised, slr_materialized>>
       \/ \* lines 422-426: the scan raised and the loop caught it
          /\ leads[idx].website_url
          /\ \E kind \in Raisable \ {"KeyboardInterrupt"} :
                /\ kind = "SessionLimitReached" => slr_is_exception
                /\ NoteSessionLimit(kind, Ids(leads))
          /\ leads' = [leads EXCEPT ![idx].status = "unbekannt"]
          /\ idx' = idx + 1
          /\ UNCHANGED <<p_pc, result, http_client, browser_client, exit_path>>
       \/ \* an interrupt, or a session limit the loop does not catch
          /\ leads[idx].website_url
          /\ \E kind \in {"KeyboardInterrupt"} \cup
                         (IF stealth /\ ~slr_is_exception
                          THEN {"SessionLimitReached"} ELSE {}) :
                /\ Leave(kind, browser_client)
                /\ NoteSessionLimit(kind, Ids(leads))
          /\ UNCHANGED <<leads, idx>>
    /\ UNCHANGED <<sources, stealth, slr_is_exception, include_modern, min_quality, listings,
                   scraper_leads, partial_leads, gs_leads, gm_leads, leads_defined,
                   stage_log>>
    /\ UNCHANGED scraper_errors

\* the loop of stage 3 is through; run, lines 249-252
Stage3Done ==
    /\ p_pc = "stage3"
    /\ idx > Len(leads)
    /\ p_pc' = AfterWebsiteCheck
    /\ Log(<<"end_3", "start_4">>)
    /\ UNCHANGED <<sources, stealth, slr_is_exception, include_modern, min_quality, listings, idx,
                   scraper_leads, partial_leads, gs_leads, gm_leads, leads,
                   leads_defined, result, http_client, browser_client, exit_path,
                   slr_raised, slr_materialized>>
    /\ UNCHANGED scraper_errors

\* Pipeline._stage4_filter_leads and run, lines 253-271, with the finally clause
Stage4 ==
    /\ p_pc = "stage4"
    /\ leads' = stage4_filter_leads(leads)
    /\ result' = [result EXCEPT !.leads = leads']
    /\ exit_path' = "normal"
    /\ p_pc' = "returned"
    /\ http_client' = HttpAfterExit
    /\ browser_client' = cleanup(browser_client)
    /\ Log(<<"end_4">>)
    /\ UNCHANGED <<sources, stealth, slr_is_exception, include_modern, min_quality, listings, idx,
                   scraper_leads, partial_leads, gs_leads, gm_leads, leads_defined,
                   slr_raised, slr_materialized>>
    /\ UNCHANGED scraper_errors

NextPipeline ==
    \/ Stage1aSkip /\ UNCHANGED notPipelineVars
    \/ Stage1aSearch /\ UNCHANGED notPipelineVars
    \/ Stage1aDetail /\ UNCHANGED notPipelineVars
    \/ Stage1aDone /\ UNCHANGED notPipelineVars
    \/ Stage1bSkip /\ UNCHANGED notPipelineVars
    \/ Stage1b /\ UNCHANGED notPipelineVars
    \/ Stage2 /\ UNCHANGED notPipelineVars
    \/ Stage3 /\ UNCHANGED notPipelineVars
    \/ Stage3Done /\ UNCHANGED notPipelineVars
    \/ Stage4 /\ UNCHANGED notPipelineVars
(***************************************************************************)
(* run_multi_branche_scrape and main (src/main.py).  A category is a       *)
(* position of BRANCHEN_LISTE; one run works through a contiguous part of  *)
(* that list (--all-branchen the whole list, --kategorie a part of it).    *)
(* The two checkpoint files are named after the city only, so successive   *)
(* runs for one city share them.  A multi lead is a record: branche (the   *)
(* category whose pipeline produced it), key (the business) and            *)
(* scrape_datum (a datetime in memory, a string in the file).              *)
(***************************************************************************)
BRANCHEN_LISTE == [c \in 1..MaxCategories |-> c]

\* the lists a run can be given: --all-branchen or one --kategorie
CategoryLists ==
    {SubSeq(BRANCHEN_LISTE, a, b) : a \in 1..MaxCategories, b \in 1..MaxCategories} \ {<<>>}

MultiLead(branche, key) == [branche |-> branche, key |-> key, scrape_datum |-> "datetime"]

\* the result.leads one Pipeline.run can return for a category
PipelineLeads(branche) ==
    UNION {{[j \in 1..n |-> MultiLead(branche, f[j])] : f \in [1..n -> 1..MaxKeys]}
           : n \in 0..MaxBrancheLeads}

\* lead.model_dump() written by json.dump(..., default=str): the computed
\* field is part of the dump, the datetime becomes a string
lead_dump(lead) ==
    [branche |-> lead.branche, key |-> lead.key, scrape_datum |-> "str",
     qualitaet_score |-> 20]

\* Lead(**lead_dict): the string is parsed back to a datetime, the key of
\* the computed field is ignored
lead_load(d) == [branche |-> d.branche, key |-> d.key, scrape_datum |-> "datetime"]

NoFile == [exists |-> FALSE, data |-> <<>>]

\* _save_checkpoint: the leads file
save_leads(ls) == [exists |-> TRUE, data |-> [j \in 1..Len(ls) |-> lead_dump(ls[j])]]

\* _save_checkpoint: the processed file
save_processed_stale(processed, old) == old

save_processed(processed, old) == [exists |-> TRUE, data |-> processed]

\* lines 296-304: the processed set a run starts with
load_processed(f) == IF f.exists THEN f.data ELSE {}

\* lines 306-320: the leads a run starts with
load_leads(f, processed) ==
    IF f.exists /\ processed # {}
    THEN [j \in 1..Len(f.data) |-> lead_load(f.data[j])]
    ELSE <<>>

\* line 326: the category is skipped
already_processed_never(branche, processed) == FALSE

already_processed(branche, processed) == branche \in processed

\* lines 365-379: the first comparison calls aggregator._is_duplicate, which
\* LeadAggregator does not define, so it raises AttributeError as soon as
\* there is a new lead and an accumulated lead to compare
dedup_raises(found, accumulated) == found # <<>> /\ accumulated # <<>>

\* lines 365-379 when nothing is raised: nothing was compared, all are new
dedup_new_leads(found, accumulated) == found

\* line 394
checkpoint_due(i) == i % CheckpointEvery = 0

InitMulti ==
    /\ m_pc = "idle"
    /\ branchen = <<>>
    /\ m_idx = 1
    /\ all_leads = <<>>
    /\ processed_branchen = {}
    /\ debug = FALSE
    /\ checkpoint_file = NoFile
    /\ processed_branchen_file = NoFile
    /\ exit_code = -1
    /\ runs = 0
    /\ start_checkpoint = NoFile
    /\ start_processed = NoFile
    /\ scraped = {}
    /\ order = <<>>
    /\ branche_leads = <<>>
    /\ raised = {}

\* main calls run_multi_branche_scrape: lines 285-322
StartRun ==
    /\ m_pc \in {"idle", "done", "exit1", "crashed"}
    /\ runs < MaxRuns
    /\ runs' = runs + 1
    /\ \E list \in CategoryLists : branchen' = list
    /\ debug' \in BOOLEAN
    /\ processed_branchen' = load_processed(processed_branchen_file)
    /\ all_leads' = load_leads(checkpoint_file, processed_branchen')
    /\ m_idx' = 1
    /\ m_pc' = "loop"
    /\ exit_code' = -1
    /\ start_checkpoint' = checkpoint_file
    /\ start_processed' = processed_branchen_file
    /\ scraped' = {}
    /\ order' = <<>>
    /\ branche_leads' = <<>>
    /\ raised' = {}
    /\ UNCHANGED <<checkpoint_file, processed_branchen_file>>

\* lines 326-327: continue
CategorySkip ==
    /\ m_pc = "loop"
    /\ m_idx <= Len(branchen)
    /\ already_processed(branchen[m_idx], processed_branchen)
    /\ m_idx' = m_idx + 1
    /\ UNCHANGED <<m_pc, branchen, all_leads, processed_branchen, debug, checkpoint_file,
                   processed_branchen_file, exit_code, runs, start_checkpoint,
                   start_processed, scraped, order, branche_leads, raised>>

\* lines 360-396: pipeline.run returns, the leads are added (or the
\* AttributeError of the comparison is printed and dropped), the category
\* is marked and the checkpoint written when the position is due
CategoryScraped ==
    /\ m_pc = "loop"
    /\ m_idx <= Len(branchen)
    /\ ~already_processed(branchen[m_idx], processed_branchen)
    /\ \E found \in PipelineLeads(branchen[m_idx]) :
          /\ dedup_raises(found, all_leads) => ~debug
          /\ branche_leads' = found
          /\ all_leads' = IF dedup_raises(found, all_leads)
                          THEN all_leads
                          ELSE all_leads \o dedup_new_leads(found, all_leads)
          /\ raised' = IF dedup_raises(found, all_leads)
                       THEN raised \cup {branchen[m_idx]}
                       ELSE raised
    /\ processed_branchen' = processed_branchen \cup {branchen[m_idx]}
    /\ IF checkpoint_due(m_idx)
       THEN /\ checkpoint_file' = save_leads(all_leads')
            /\ processed_branchen_file' = save_processed(processed_branchen', processed_branchen_file)
       ELSE UNCHANGED <<checkpoint_file, processed_branchen_file>>
    /\ m_idx' = m_idx + 1
    /\ scraped' = scraped \cup {branchen[m_idx]}
    /\ order' = Append(order, branchen[m_idx])
    /\ UNCHANGED <<m_pc, branchen, debug, exit_code, runs, start_checkpoint, start_processed>>

\* lines 385-388 with --debug: the AttributeError is raised again, main
\* (lines 549-552) raises it again and the process ends with a traceback
CategoryCrashed ==
    /\ m_pc = "loop"
    /\ m_idx <= Len(branchen)
    /\ ~already_processed(branchen[m_idx], processed_branchen)
    /\ debug
    /\ \E found \in PipelineLeads(branchen[m_idx]) :
          /\ dedup_raises(found, all_leads)
          /\ branche_leads' = found
    /\ raised' = raised \cup {branchen[m_idx]}
    /\ m_pc' = "crashed"
    /\ exit_code' = 1
    /\ scraped' = scraped \cup {branchen[m_idx]}
    /\ UNCHANGED <<branchen, m_idx, all_leads, processed_branchen, debug, checkpoint_file,
                   processed_branchen_file, runs, start_checkpoint, start_processed, order>>

\* lines 381-384 and main 545-548: the user interrupts while the category
\* is worked on; the checkpoint is written, main returns 1
CategoryInterrupted ==
    /\ m_pc = "loop"
    /\ m_idx <= Len(branchen)
    /\ ~already_processed(branchen[m_idx], processed_branchen)
    /\ checkpoint_file' = save_leads(all_leads)
    /\ processed_branchen_file' = save_processed(processed_branchen, processed_branchen_file)
    /\ m_pc' = "exit1"
    /\ exit_code' = 1
    /\ scraped' = scraped \cup {branchen[m_idx]}
    /\ UNCHANGED <<branchen, m_idx, all_leads, processed_branchen, debug, runs,
                   start_checkpoint, start_processed, order, branche_leads, raised>>

\* lines 398-412 and main 554-644: the loop is over, the files are removed
RunFinished ==
    /\ m_pc = "loop"
    /\ m_idx > Len(branchen)
    /\ checkpoint_file' = NoFile
    /\ processed_branchen_file' = NoFile
    /\ m_pc' = "done"
    /\ exit_code' = IF all_leads = <<>> THEN 1 ELSE 0
    /\ UNCHANGED <<branchen, m_idx, all_leads, processed_branchen, debug, runs,
                   start_checkpoint, start_processed, scraped, order, branche_leads, raised>>

(***************************************************************************)
(* RateLimiter (src/src/client/rate_limiter.py) with callers that use it   *)
(* as HTTPClient.get does: wait(domain), then the request, then            *)
(* report_success or report_error for the response (none after a network   *)
(* error).  Time is a clock of whole units; durations of the               *)
(* configuration are scaled to it.  The threading.Lock is the variable     *)
(* lock: wait takes it at its first line and gives it back when it         *)
(* returns, the sleeps of wait happen in between.                          *)
(***************************************************************************)
Callers == {"c1", "c2"}

GS_HOST == "gelbeseiten.de"
EXT_HOST == "extern"
Hosts == {GS_HOST, EXT_HOST}

\* RateLimitConfig, scaled to the clock
gs_min_delay == 1
gs_max_delay == 2
ext_min_delay == 1
ext_max_delay == 1
gs_pause_every_n_requests == 2
gs_pause_min_duration == 2
gs_pause_max_duration == 3
backoff_factor == 2
retry_status_codes == {429, 500, 502, 503, 504}

\* report_error: block_duration = backoff_factor ** errors * 5, at most 300
block_base == 1
block_cap == 4
\* _calculate_delay: at most 60
delay_cap == 3

\* the statuses a response can carry in the model
ErrorStatuses == {429, 404}

RECURSIVE Pow(_, _)
Pow(b, e) == IF e = 0 THEN 1 ELSE b * Pow(b, e - 1)

Min(a, b) == IF a < b THEN a ELSE b
Max(a, b) == IF a > b THEN a ELSE b

\* DomainState(): last_request_time = 0.0 lies far before the process start
DomainState0 ==
    [request_count |-> 0, last_request_time |-> 0 - (MaxTime + delay_cap),
     consecutive_errors |-> 0, is_blocked |-> FALSE, blocked_until |-> 0]

\* _classify_domain
classify_domain(h) == IF h = GS_HOST THEN "gelbe_seiten" ELSE "external"

\* _calculate_delay: the delays random.uniform and the backoff can give
calculate_delay(domain_type, state) ==
    LET base == IF domain_type = "gelbe_seiten"
                THEN {gs_min_delay, gs_max_delay}
                ELSE {ext_min_delay, ext_max_delay}
    IN  IF state.consecutive_errors > 0
        THEN {Min(d * Pow(backoff_factor, state.consecutive_errors), delay_cap) : d \in base}
        ELSE base

\* _should_take_long_pause
should_take_long_pause_any_host(domain_type, state) ==
    /\ state.request_count > 0
    /\ state.request_count % gs_pause_every_n_requests = 0

should_take_long_pause(domain_type, state) ==
    /\ domain_type = "gelbe_seiten"
    /\ state.request_count > 0
    /\ state.request_count % gs_pause_every_n_requests = 0

\* _get_long_pause_duration
long_pause_durations == {gs_pause_min_duration, gs_pause_max_duration}

\* wait, lines 129-132: how long the cooldown sleep lasts
cooldown_wait_none(state) == 0

cooldown_wait(state) == state.blocked_until - now

\* report_error, lines 188-189
block_duration(errors) == Min(Pow(backoff_factor, errors) * block_base, block_cap)

\* should_retry's and report_error's test of the status
is_retry_status(status) == status \in retry_status_codes

InitLimiter ==
    /\ lock = "free"
    /\ now = 0
    /\ l_pc = [c \in Callers |-> "idle"]
    /\ l_host = [c \in Callers |-> GS_HOST]
    /\ l_status = [c \in Callers |-> 0]
    /\ wake_at = [c \in Callers |-> 0]
    /\ domain_states = [h \in Hosts |-> DomainState0]
    /\ global_request_count = 0
    /\ max_deadline = [h \in Hosts |-> 0]
    /\ l_pause = [c \in Callers |-> 0]
    /\ last_admit = [h \in Hosts |-> [at |-> 0, deadline |-> 0, pause |-> 0, count |-> 0 - 1]]

\* wait, lines 156-161: the request is counted and wait returns
Admit(c, states, pause) ==
    LET h == l_host[c] IN
    /\ domain_states' = [states EXCEPT ![h].request_count = @ + 1,
                                       ![h].last_request_time = now]
    /\ global_request_count' = global_request_count + 1
    /\ lock' = "free"
    /\ l_pc' = [l_pc EXCEPT ![c] = "in_flight"]
    /\ wake_at' = [wake_at EXCEPT ![c] = 0]
    /\ last_admit' = [last_admit EXCEPT ![h] =
                         [at |-> now, deadline |-> max_deadline[h], pause |-> pause,
                          count |-> states[h].request_count]]
    /\ l_pause' = [l_pause EXCEPT ![c] = 0]

\* wait, lines 138-154: the delay is computed and slept, with the lock held
Pace(c, states) ==
    LET h == l_host[c]
        t == classify_domain(h)
        st == states[h]
    IN  \E delay \in calculate_delay(t, st) :
        \E pause \in (IF should_take_long_pause(t, st) THEN long_pause_durations ELSE {0}) :
            LET actual_delay == Max(0, delay - (now - st.last_request_time)) + pause IN
            IF actual_delay > 0
            THEN /\ lock' = c
                 /\ l_pc' = [l_pc EXCEPT ![c] = IF pause > 0 THEN "sleep_pause" ELSE "sleep_pace"]
                 /\ wake_at' = [wake_at EXCEPT ![c] = now + actual_delay]
                 /\ l_pause' = [l_pause EXCEPT ![c] = pause]
                 /\ domain_states' = states
                 /\ UNCHANGED <<global_request_count, last_admit>>
            ELSE Admit(c, states, 0)

\* the positions of a caller inside wait
Waiting == {"call_wait", "sleep_cooldown", "sleep_pace", "sleep_pause"}

\* a caller calls wait(domain)
CallWait(c, h) ==
    /\ l_pc[c] = "idle"
    /\ global_request_count + Cardinality({d \in Callers : l_pc[d] \in Waiting}) < MaxRequests
    /\ l_pc' = [l_pc EXCEPT ![c] = "call_wait"]
    /\ l_host' = [l_host EXCEPT ![c] = h]
    /\ UNCHANGED <<lock, now, l_status, wake_at, domain_states, global_request_count,
                   max_deadline, last_admit, l_pause>>

\* wait, lines 123-135: the lock is taken; a host in cooldown is slept out
WaitEnter(c) ==
    LET h == l_host[c]
        st == domain_states[h]
    IN  /\ l_pc[c] = "call_wait"
        /\ lock = "free"
        /\ IF st.is_blocked /\ now < st.blocked_until /\ cooldown_wait(st) > 0
           THEN /\ lock' = c
                /\ l_pc' = [l_pc EXCEPT ![c] = "sleep_cooldown"]
                /\ wake_at' = [wake_at EXCEPT ![c] = now + cooldown_wait(st)]
                /\ UNCHANGED <<domain_states, global_request_count, last_admit, l_pause>>
           ELSE Pace(c, [domain_states EXCEPT ![h].is_blocked = FALSE])
        /\ UNCHANGED <<now, l_host, l_status, max_deadline>>

\* wait, lines 132-138: the cooldown sleep is over
WakeCooldown(c) ==
    /\ l_pc[c] = "sleep_cooldown"
    /\ now >= wake_at[c]
    /\ Pace(c, [domain_states EXCEPT ![l_host[c]].is_blocked = FALSE])
    /\ UNCHANGED <<now, l_host, l_status, max_deadline>>

\* wait, lines 154-161: the pacing sleep is over
WakePace(c) ==
    /\ l_pc[c] \in {"sleep_pace", "sleep_pause"}
    /\ now >= wake_at[c]
    /\ Admit(c, domain_states, l_pause[c])
    /\ UNCHANGED <<now, l_host, l_status, max_deadline>>

\* HTTPClient.get, lines 165-242: the response arrives
Response(c) ==
    /\ l_pc[c] = "in_flight"
    /\ \/ /\ l_pc' = [l_pc EXCEPT ![c] = "call_report_success"]
          /\ UNCHANGED l_status
       \/ \E status \in ErrorStatuses :
             /\ l_pc' = [l_pc EXCEPT ![c] = "call_report_error"]
             /\ l_status' = [l_status EXCEPT ![c] = status]
       \/ /\ l_pc' = [l_pc EXCEPT ![c] = "idle"]
          /\ UNCHANGED l_status
    /\ UNCHANGED <<lock, now, l_host, wake_at, domain_states, global_request_count,
                   max_deadline, last_admit, l_pause>>

\* report_success
ReportSuccess(c) ==
    /\ l_pc[c] = "call_report_success"
    /\ lock = "free"
    /\ domain_states' = [domain_states EXCEPT ![l_host[c]].consecutive_errors = 0]
    /\ l_pc' = [l_pc EXCEPT ![c] = "idle"]
    /\ UNCHANGED <<lock, now, l_host, l_status, wake_at, global_request_count,
                   max_deadline, last_admit, l_pause>>

\* report_error
ReportError(c) ==
    LET h == l_host[c]
        errors == domain_states[h].consecutive_errors + 1
    IN  /\ l_pc[c] = "call_report_error"
        /\ lock = "free"
        /\ IF is_retry_status(l_status[c])
           THEN /\ domain_states' = [domain_states EXCEPT
                       ![h].consecutive_errors = errors,
                       ![h].is_blocked = TRUE,
                       ![h].blocked_until = now + block_duration(errors)]
                /\ max_deadline' = [max_deadline EXCEPT
                       ![h] = Max(@, now + block_duration(errors))]
           ELSE /\ domain_states' = [domain_states EXCEPT ![h].consecutive_errors = errors]
                /\ UNCHANGED max_deadline
        /\ l_pc' = [l_pc EXCEPT ![c] = "idle"]
        /\ l_status' = [l_status EXCEPT ![c] = 0]
        /\ UNCHANGED <<lock, now, l_host, wake_at, global_request_count, last_admit, l_pause>>

\* time passes
Tick ==
    /\ now < MaxTime
    /\ now' = now + 1
    /\ UNCHANGED <<lock, l_pc, l_host, l_status, wake_at, domain_states,
                   global_request_count, max_deadline, last_admit, l_pause>>

(***************************************************************************)
(* HTTPClient.get_with_retry (src/src/client/http.py).  One call of get    *)
(* is one step: inside it the session's transport adapter (Retry(total=3,  *)
(* status_forcelist=[500, 502, 503, 504])) may send the request again      *)
(* before get sees a response or an exception; wire counts what was sent.  *)
(* The wait and report calls that get makes on the RateLimiter are the     *)
(* steps of the limiter machine above.  A response is its status code:     *)
(* 200 for response.ok, 0 for a network-layer exception.                   *)
(***************************************************************************)
\* RateLimitConfig.max_retries
max_retries == 3

\* _create_session: Retry(total=3)
session_retry_total == 3

\* _create_session: status_forcelist
status_forcelist == {500, 502, 503, 504}

\* ScraperConfig.rotate_ua_every_n_requests
rotate_ua_every_n_requests == 10

NETWORK_ERROR == 0
OK == 200

\* what one get can return
GetStatuses == {OK, NETWORK_ERROR, 404, 429, 503}

\* HTTPResponse.success
success(status) == status = OK

\* how often the adapter can have sent the request when get ends with status
wire_attempts(status) ==
    IF status = NETWORK_ERROR \/ status \in status_forcelist
    THEN {session_retry_total + 1}
    ELSE 1..(session_retry_total + 1)

\* RateLimiter.should_retry
should_retry_network_too(status, attempt) ==
    attempt < max_retries /\ (is_retry_status(status) \/ status = NETWORK_ERROR)

should_retry(status, attempt) ==
    IF attempt >= max_retries THEN FALSE ELSE is_retry_status(status)

\* get_with_retry, line 347: range(max_retries + 1)
attempts_allowed_one_more(n) == n + 2

attempts_allowed(n) == n + 1

\* lines 341-342: the parameter, or the configuration when it is None
NoParam == 0 - 1
effective_max_retries(param) == IF param = NoParam THEN max_retries ELSE param

\* _should_rotate_ua
should_rotate_ua(count) == count % rotate_ua_every_n_requests = 0

InitFetch ==
    /\ f_pc = "idle"
    /\ f_max_retries = 0
    /\ f_attempt = 0
    /\ responses = <<>>
    /\ wire = <<>>
    /\ f_request_count = 0
    /\ ua_rotations = 1
    /\ since_rotation = 0

\* a caller calls get_with_retry(url, max_retries)
CallGetWithRetry ==
    /\ f_pc = "idle"
    /\ \E param \in {NoParam} \cup 0..MaxRetriesParam :
          f_max_retries' = effective_max_retries(param)
    /\ f_attempt' = 0
    /\ responses' = <<>>
    /\ wire' = <<>>
    /\ f_pc' = "loop"
    /\ UNCHANGED <<f_request_count, ua_rotations, since_rotation>>

\* lines 347-356 with get, lines 141-242: one get and what the loop makes of it
Attempt ==
    /\ f_pc = "loop"
    /\ f_attempt < attempts_allowed(f_max_retries)
    /\ \E status \in GetStatuses :
          /\ responses' = Append(responses, status)
          /\ \E n \in wire_attempts(status) : wire' = Append(wire, n)
          /\ f_pc' = IF success(status) THEN "returned"
                     ELSE IF ~should_retry(status, f_attempt) THEN "returned"
                     ELSE "retry_sleep"
    /\ ua_rotations' = IF should_rotate_ua(f_request_count) THEN ua_rotations + 1 ELSE ua_rotations
    /\ since_rotation' = IF should_rotate_ua(f_request_count) THEN 1 ELSE since_rotation + 1
    /\ f_request_count' = f_request_count + 1
    /\ UNCHANGED <<f_max_retries, f_attempt>>

\* lines 358-367: the retry delay is slept, the loop goes on or is over
RetrySleepDone ==
    /\ f_pc = "retry_sleep"
    /\ f_attempt' = f_attempt + 1
    /\ f_pc' = IF f_attempt' < attempts_allowed(f_max_retries) THEN "loop" ELSE "returned"
    /\ UNCHANGED <<f_max_retries, responses, wire, f_request_count, ua_rotations,
                   since_rotation>>

\* the caller has its response and may call again
NextCall ==
    /\ f_pc = "returned"
    /\ f_request_count < MaxClientRequests
    /\ f_pc' = "idle"
    /\ f_max_retries' = 0
    /\ f_attempt' = 0
    /\ responses' = <<>>
    /\ wire' = <<>>
    /\ UNCHANGED <<f_request_count, ua_rotations, since_rotation>>

\* head, lines 260-319: the request is counted and sent; the user agent is
\* not looked at
HeadRequest ==
    /\ f_pc = "idle"
    /\ f_request_count < MaxClientRequests
    /\ f_request_count' = f_request_count + 1
    /\ since_rotation' = since_rotation + 1
    /\ UNCHANGED <<f_pc, f_max_retries, f_attempt, responses, wire, ua_rotations>>

(***************************************************************************)
(* ProxyManager (src/src/client/proxy_manager.py).  proxies is the list    *)
(* _proxies; a proxy is its statistics: success_count, failure_count and   *)
(* is_blocked.  Every operation runs under the manager's lock, so each is  *)
(* one step.  _current_index counts from 0 as in the code.                 *)
(***************************************************************************)
\* ProxyManager.__init__: rotate_every_n (10 by default), scaled down
px_rotate_every_n == 3

\* ProxyManager.__init__: max_failures (5 by default), scaled down
px_max_failures == 2

\* ProxyConfig(host, port)
ProxyConfig0 == [success_count |-> 0, failure_count |-> 0, is_blocked |-> FALSE]

\* ProxyManager.enabled
px_is_enabled(flag, ps) == flag /\ Len(ps) > 0

\* the positions of the unblocked proxies
Unblocked(ps) == {i \in 1..Len(ps) : ~ps[i].is_blocked}

\* get_next_proxy, lines 231-240: the search for an unblocked proxy, from
\* index on, at most attempts entries; what it returns (0 for None) and
\* where it leaves _current_index
RECURSIVE find_unblocked_no_skip(_, _, _)
find_unblocked_no_skip(ps, index, attempts) == [proxy |-> index + 1, index |-> index]

RECURSIVE find_unblocked(_, _, _)
find_unblocked(ps, index, attempts) ==
    IF attempts >= Len(ps) THEN [proxy |-> 0, index |-> index]
    ELSE IF ~ps[index + 1].is_blocked THEN [proxy |-> index + 1, index |-> index]
    ELSE find_unblocked(ps, (index + 1) % Len(ps), attempts + 1)

\* report_failure, line 273
block_condition_count_only(block, failure_count) == failure_count >= px_max_failures

block_condition(block, failure_count) == block \/ failure_count >= px_max_failures

NoOp == [op |-> "none", proxy |-> 0, block |-> FALSE, before |-> {}]

InitProxy ==
    /\ px_enabled \in BOOLEAN
    /\ proxies = <<>>
    /\ px_current_index = 0
    /\ px_request_count = 0
    /\ last_next = 0
    /\ last_op = NoOp

\* add_proxy
AddProxy ==
    /\ Len(proxies) < MaxProxies
    /\ proxies' = Append(proxies, ProxyConfig0)
    /\ px_enabled' = TRUE
    /\ last_op' = [op |-> "add_proxy", proxy |-> Len(proxies) + 1, block |-> FALSE,
                   before |-> Unblocked(proxies)]
    /\ last_next' = 0
    /\ UNCHANGED <<px_current_index, px_request_count>>

\* get_next_proxy
GetNextProxy ==
    /\ IF ~px_is_enabled(px_enabled, proxies)
       THEN /\ last_next' = 0
            /\ UNCHANGED <<px_current_index, px_request_count>>
       ELSE LET rotate == px_request_count + 1 >= px_rotate_every_n
                start == IF rotate THEN (px_current_index + 1) % Len(proxies)
                         ELSE px_current_index
                found == find_unblocked(proxies, start, 0)
            IN  /\ px_request_count' = IF rotate THEN 0 ELSE px_request_count + 1
                /\ px_current_index' = found.index
                /\ last_next' = found.proxy
    /\ last_op' = [op |-> "get_next_proxy", proxy |-> 0, block |-> FALSE,
                   before |-> Unblocked(proxies)]
    /\ UNCHANGED <<px_enabled, proxies>>

\* report_success(proxy)
ProxySuccess(i) ==
    /\ i \in 1..Len(proxies)
    /\ proxies[i].success_count < MaxProxyReports
    /\ proxies' = [proxies EXCEPT ![i].success_count = @ + 1]
    /\ last_op' = [op |-> "report_success", proxy |-> i, block |-> FALSE,
                   before |-> Unblocked(proxies)]
    /\ last_next' = 0
    /\ UNCHANGED <<px_enabled, px_current_index, px_request_count>>

\* report_failure(proxy, block)
ProxyFailure(i, block) ==
    /\ i \in 1..Len(proxies)
    /\ proxies[i].failure_count <= px_max_failures
    /\ LET failure_count == proxies[i].failure_count + 1 IN
       proxies' = [proxies EXCEPT
                      ![i].failure_count = failure_count,
                      ![i].is_blocked = IF block_condition(block, failure_count)
                                        THEN TRUE ELSE @]
    /\ last_op' = [op |-> "report_failure", proxy |-> i, block |-> block,
                   before |-> Unblocked(proxies)]
    /\ last_next' = 0
    /\ UNCHANGED <<px_enabled, px_current_index, px_request_count>>

\* reset_blocked
ResetBlocked ==
    /\ proxies' = [i \in 1..Len(proxies) |->
                      IF proxies[i].is_blocked
                      THEN [proxies[i] EXCEPT !.is_blocked = FALSE, !.failure_count = 0]
                      ELSE proxies[i]]
    /\ last_op' = [op |-> "reset_blocked", proxy |-> 0, block |-> FALSE,
                   before |-> Unblocked(proxies)]
    /\ last_next' = 0
    /\ UNCHANGED <<px_enabled, px_current_index, px_request_count>>

(***************************************************************************)
(* The website classifier: URLHeuristic.analyze, HeaderChecker.check,      *)
(* HTMLScanner.scan and WebsiteScanner.scan, which runs them as stages.    *)
(* A signal is its name (a string).  An entry of all_signals is the pair   *)
(* of the prefix scan puts before the colon and the stage's signal, so     *)
(* f"url:{s}" is [prefix |-> "url", signal |-> s].  Confidences are in     *)
(* hundredths (0.95 is 95).  The scores of _make_final_decision are in     *)
(* halves (1.5 is 3), so that they stay integers.                          *)
(***************************************************************************)
FAST == "fast"
NORMAL == "normal"
THOROUGH == "thorough"
WebsiteCheckDepth == {FAST, NORMAL, THOROUGH}

\* the result values shared by HeuristicResult, HeaderResult and HTMLResult
DEFINITIV_ALT == "definitiv_alt"
WAHRSCHEINLICH_ALT == "wahrscheinlich_alt"
UNKLAR == "unklar"
WAHRSCHEINLICH_MODERN == "wahrscheinlich_modern"
BAUKASTEN == "baukasten"
FEHLER == "fehler"

\* ScanResult
SR_ALT == "alt"
SR_MODERN == "modern"
SR_BAUKASTEN == "baukasten"
SR_UNKLAR == "unklar"
SR_FEHLER == "fehler"
ScanResult == {SR_ALT, SR_MODERN, SR_BAUKASTEN, SR_UNKLAR, SR_FEHLER}

\* WebsiteStatus
WS_KEINE == "keine"
WS_ALT == "alt"
WS_MODERN == "modern"
WS_UNBEKANNT == "unbekannt"
WS_NICHT_GEPRUEFT == "nicht_geprueft"

AnalysisResult(result_type, confidence, signals) ==
    [result |-> result_type, confidence |-> confidence, signals |-> signals]

\* a stage that has not run
NoResult == AnalysisResult("none", 0, <<>>)

\* ---- URLHeuristic ----
\* The URLs, by what analyze reads off them: whether urlparse raises,
\* the scheme, the worst OLD_HOSTING_PATTERNS match, and whether a
\* BAUKASTEN_PATTERNS, a MODERN_PATTERNS and a SUSPICIOUS_PATH_PATTERNS
\* entry matches.
Urls ==
    [parse_error : {FALSE}, is_https : BOOLEAN,
     old : {"none", WAHRSCHEINLICH_ALT, DEFINITIV_ALT},
     baukasten : BOOLEAN, modern : BOOLEAN, path : BOOLEAN]
    \cup
    [parse_error : {TRUE}, is_https : {FALSE}, old : {"none"},
     baukasten : {FALSE}, modern : {FALSE}, path : {FALSE}]

check_old_patterns(url) ==
    IF url.old = DEFINITIV_ALT THEN <<"geocities_hosting">>
    ELSE IF url.old = WAHRSCHEINLICH_ALT THEN <<"bplaced_hosting">>
    ELSE <<>>

check_baukasten(url) == IF url.baukasten THEN <<"jimdo_baukasten">> ELSE <<>>

check_modern_patterns(url) == IF url.modern THEN <<"modern_vercel_hosting">> ELSE <<>>

check_path_patterns(url) == IF url.path THEN <<"htm_extension">> ELSE <<>>

analyze(url) ==
    LET https_signals == IF url.is_https THEN <<>> ELSE <<"kein_https">>
        rest == https_signals \o check_path_patterns(url)
    IN  IF url.parse_error
        THEN AnalysisResult(UNKLAR, 0, <<"url_parse_error">>)
        ELSE IF check_old_patterns(url) # <<>>
        THEN AnalysisResult(url.old,
                            IF url.old = DEFINITIV_ALT THEN 90 ELSE 70,
                            https_signals \o check_old_patterns(url))
        ELSE IF check_baukasten(url) # <<>>
        THEN AnalysisResult(BAUKASTEN, 95, https_signals \o check_baukasten(url))
        ELSE IF check_modern_patterns(url) # <<>>
        THEN AnalysisResult(WAHRSCHEINLICH_MODERN, 80,
                            https_signals \o check_modern_patterns(url))
        ELSE IF ~url.is_https /\ Len(rest) > 1
        THEN AnalysisResult(WAHRSCHEINLICH_ALT, 60, rest)
        ELSE IF rest # <<>>
        THEN AnalysisResult(UNKLAR, 30, rest)
        ELSE AnalysisResult(UNKLAR, 0, rest)

\* ---- HeaderChecker ----
\* The responses to the HEAD, by what check reads off them: success, the
\* signal of the Server header ("" for none), the signal of X-Powered-By,
\* whether a modern pattern matches, and the number of security headers.
HeadResponses ==
    [success : {TRUE},
     server : {"", "server_apache_1_x", "server_apache_2_2", "server_nginx_0_x"},
     powered_by : {"", "powered_by_php_5_late"},
     modern : BOOLEAN,
     security_score : {0, 1, 3, 4}]
    \cup
    [success : {FALSE}, server : {""}, powered_by : {""}, modern : {FALSE},
     security_score : {0}]

\* the signals that contain one of "alt", "old", "php_1", "php_5",
\* "apache_2_0", "apache_2_2", "iis_"
header_old_names == {"server_apache_2_2", "powered_by_php_5_late"}

\* the signals that contain one of "php_1_4", "php_5_early", "apache_1",
\* "iis_old", "iis_6"
header_definitiv_alt_names == {"server_apache_1_x"}

\* the signals that contain "modern_"
modern_names ==
    {"modern_cloudflare", "modern_schema_org", "modern_open_graph", "modern_css_layout"}

CountIn(signals, names) == Cardinality({i \in 1..Len(signals) : signals[i] \in names})

header_signals(response) ==
    (IF response.server # "" THEN <<response.server>> ELSE <<>>)
    \o (IF response.powered_by # "" THEN <<response.powered_by>> ELSE <<>>)
    \o (IF response.security_score = 0 THEN <<"keine_security_header">>
        ELSE IF response.security_score >= 4 THEN <<"gute_security_header">>
        ELSE <<>>)
    \o (IF response.modern THEN <<"modern_cloudflare">> ELSE <<>>)

header_calculate_result(signals, security_score) ==
    LET old_signals == CountIn(signals, header_old_names)
        modern_signals == CountIn(signals, modern_names)
    IN  IF CountIn(signals, header_definitiv_alt_names) > 0
        THEN AnalysisResult(DEFINITIV_ALT, 90, signals)
        ELSE IF old_signals >= 2 \/ (old_signals >= 1 /\ security_score = 0)
        THEN AnalysisResult(WAHRSCHEINLICH_ALT, 70, signals)
        ELSE IF old_signals = 1
        THEN AnalysisResult(WAHRSCHEINLICH_ALT, 50, signals)
        ELSE IF modern_signals > 0 /\ security_score >= 3
        THEN AnalysisResult(WAHRSCHEINLICH_MODERN, 80, signals)
        ELSE IF modern_signals > 0
        THEN AnalysisResult(WAHRSCHEINLICH_MODERN, 60, signals)
        ELSE IF security_score >= 4
        THEN AnalysisResult(WAHRSCHEINLICH_MODERN, 50, signals)
        ELSE AnalysisResult(UNKLAR, 30, signals)

check(response) ==
    IF ~response.success
    THEN AnalysisResult(FEHLER, 0, <<"request_failed">>)
    ELSE header_calculate_result(header_signals(response), response.security_score)

\* ---- HTMLScanner ----
\* The responses to the GET, by what scan reads off them: success, whether
\* BeautifulSoup raises, whether a frameset is found, how many of three
\* probable-old marks are found, and how many modern indicators.
GetResponses ==
    [success : {TRUE}, parse_error : {FALSE}, frameset : BOOLEAN,
     probable_old : 0..3, modern : {0, 1, 3}]
    \cup
    [success : BOOLEAN, parse_error : {TRUE}, frameset : {FALSE},
     probable_old : {0}, modern : {0}]

html_definite_old_names == {"frameset"}

html_probable_old_names == {"no_viewport_meta", "js_jquery_1_x", "table_layout"}

html_signals(response) ==
    SubSeq(<<"no_viewport_meta", "js_jquery_1_x", "table_layout">>, 1, response.probable_old)
    \o (IF response.frameset THEN <<"frameset">> ELSE <<>>)
    \o SubSeq(<<"modern_schema_org", "modern_open_graph", "modern_css_layout">>,
              1, response.modern)

html_calculate_result(signals) ==
    LET probable_old == CountIn(signals, html_probable_old_names)
        modern == CountIn(signals, modern_names)
    IN  IF CountIn(signals, html_definite_old_names) > 0
        THEN AnalysisResult(DEFINITIV_ALT, 95, signals)
        ELSE IF probable_old >= 3
        THEN AnalysisResult(WAHRSCHEINLICH_ALT, 80, signals)
        ELSE IF probable_old >= 2
        THEN AnalysisResult(WAHRSCHEINLICH_ALT, 65, signals)
        ELSE IF probable_old = 1 /\ modern = 0
        THEN AnalysisResult(WAHRSCHEINLICH_ALT, 50, signals)
        ELSE IF modern >= 3
        THEN AnalysisResult(WAHRSCHEINLICH_MODERN, 85, signals)
        ELSE IF modern >= 1
        THEN AnalysisResult(WAHRSCHEINLICH_MODERN, 60, signals)
        ELSE AnalysisResult(UNKLAR, 30, signals)

html_scan(response) ==
    IF ~response.success
    THEN AnalysisResult(FEHLER, 0, <<"request_failed">>)
    ELSE IF response.parse_error
    THEN AnalysisResult(FEHLER, 0, <<"html_parse_error">>)
    ELSE html_calculate_result(html_signals(response))

\* ---- WebsiteScanner ----
\* every signal filed under url:, whatever the stage
prefixed_as_url(prefix, signals) ==
    [i \in 1..Len(signals) |-> [prefix |-> "url", signal |-> signals[i]]]

RECURSIVE prefixed(_, _)
\* [f"{prefix}:{s}" for s in signals]
prefixed(prefix, signals) ==
    IF signals = <<>> THEN <<>>
    ELSE <<[prefix |-> prefix, signal |-> Head(signals)]>> \o prefixed(prefix, Tail(signals))

build_result(scan_res, status, confidence, signals, methods) ==
    [result |-> scan_res, website_status |-> status, confidence |-> confidence,
     signals |-> signals, check_methods |-> methods]

\* no WebsiteScanResult yet
NoScan == build_result("none", WS_NICHT_GEPRUEFT, 0, <<>>, <<>>)

\* the WebsiteAnalysis of a lead that was not checked (check_methode is None)
NotChecked == [status |-> WS_NICHT_GEPRUEFT, signale |-> <<>>, check_methode |-> ""]

RECURSIVE join(_)
\* ",".join(methods)
join(methods) ==
    IF methods = <<>> THEN ""
    ELSE IF Len(methods) = 1 THEN Head(methods)
    ELSE Head(methods) \o "," \o join(Tail(methods))

\* scan without its early return for BAUKASTEN
url_returns_at_once_definitiv_only(url_res) == url_res.result = DEFINITIV_ALT

\* scan's two early returns after stage 1, whatever the depth
url_returns_at_once(url_res) == url_res.result \in {DEFINITIV_ALT, BAUKASTEN}

\* scan without the returns of the FAST mode
runs_header_check_at_any_depth(url_res, d) == ~url_returns_at_once(url_res)

\* whether scan goes on to the header check after stage 1
runs_header_check(url_res, d) == ~url_returns_at_once(url_res) /\ d # FAST

\* what scan returns after stage 1 when it does not go on
stage1_result(url_res, d, signals, methods) ==
    IF url_res.result = DEFINITIV_ALT
    THEN build_result(SR_ALT, WS_ALT, url_res.confidence, signals, methods)
    ELSE IF url_res.result = BAUKASTEN
    THEN build_result(SR_BAUKASTEN, WS_ALT, url_res.confidence, signals, methods)
    ELSE IF url_res.result = WAHRSCHEINLICH_MODERN
    THEN build_result(SR_MODERN, WS_MODERN, url_res.confidence, signals, methods)
    ELSE IF url_res.result = WAHRSCHEINLICH_ALT
    THEN build_result(SR_ALT, WS_ALT, url_res.confidence, signals, methods)
    ELSE build_result(SR_UNKLAR, WS_UNBEKANNT, 30, signals, methods)

\* what scan returns when the header check failed
header_error_result(url_res, signals, methods) ==
    IF url_res.result = WAHRSCHEINLICH_ALT
    THEN build_result(SR_ALT, WS_ALT, 50, signals, methods)
    ELSE build_result(SR_UNKLAR, WS_UNBEKANNT, 20, signals, methods)

combined_old_signals(url_res, header_res) ==
    \/ url_res.result \in {WAHRSCHEINLICH_ALT, DEFINITIV_ALT}
    \/ header_res.result \in {WAHRSCHEINLICH_ALT, DEFINITIV_ALT}

combined_modern_signals(url_res, header_res) ==
    \/ url_res.result = WAHRSCHEINLICH_MODERN
    \/ header_res.result = WAHRSCHEINLICH_MODERN

\* scan without the fall-through of the NORMAL mode
normal_never_falls_through(url_res, header_res) == FALSE

\* NORMAL falls through to the HTML scan
normal_falls_through(url_res, header_res) ==
    header_res.result = UNKLAR /\ url_res.result = UNKLAR

\* whether scan goes on to the HTML scan after stage 2
runs_html_scan(url_res, header_res, d) ==
    /\ header_res.result \notin {FEHLER, DEFINITIV_ALT}
    /\ d = NORMAL =>
          /\ ~(combined_old_signals(url_res, header_res)
               /\ ~combined_modern_signals(url_res, header_res))
          /\ ~(combined_modern_signals(url_res, header_res)
               /\ ~combined_old_signals(url_res, header_res))
          /\ normal_falls_through(url_res, header_res)

\* what scan returns after stage 2 when it does not go on
stage2_result(url_res, header_res, signals, methods) ==
    IF header_res.result = FEHLER
    THEN header_error_result(url_res, signals, methods)
    ELSE IF header_res.result = DEFINITIV_ALT
    THEN build_result(SR_ALT, WS_ALT, header_res.confidence, signals, methods)
    ELSE IF combined_old_signals(url_res, header_res)
            /\ ~combined_modern_signals(url_res, header_res)
    THEN build_result(SR_ALT, WS_ALT, Max(url_res.confidence, header_res.confidence),
                      signals, methods)
    ELSE IF combined_modern_signals(url_res, header_res)
            /\ ~combined_old_signals(url_res, header_res)
    THEN build_result(SR_MODERN, WS_MODERN,
                      Max(url_res.confidence, header_res.confidence), signals, methods)
    ELSE build_result(SR_UNKLAR, WS_UNBEKANNT, 40, signals, methods)

\* _make_final_decision: the scores, in halves
old_score(url_r, header_r, html_r) ==
    (IF url_r = DEFINITIV_ALT THEN 6
     ELSE IF url_r = WAHRSCHEINLICH_ALT THEN 4
     ELSE IF url_r = BAUKASTEN THEN 3 ELSE 0)
    + (IF header_r = DEFINITIV_ALT THEN 6
       ELSE IF header_r = WAHRSCHEINLICH_ALT THEN 4 ELSE 0)
    + (IF html_r = DEFINITIV_ALT THEN 8
       ELSE IF html_r = WAHRSCHEINLICH_ALT THEN 5 ELSE 0)

modern_score(url_r, header_r, html_r) ==
    (IF url_r = WAHRSCHEINLICH_MODERN THEN 4 ELSE 0)
    + (IF header_r = WAHRSCHEINLICH_MODERN THEN 4 ELSE 0)
    + (IF html_r = WAHRSCHEINLICH_MODERN THEN 6 ELSE 0)

\* "score > 4", in halves
exceeds_threshold(score) == score > 8

\* "score >= 4", in halves
reaches_threshold(score) == score >= 8

\* min(0.95, 0.5 + score * 0.1), in hundredths of a score in halves
score_confidence(score) == Min(95, 50 + 5 * score)

final_decision(url_r, header_r, html_r) ==
    LET old == old_score(url_r, header_r, html_r)
        modern == modern_score(url_r, header_r, html_r)
    IN  IF reaches_threshold(old)
        THEN [result |-> SR_ALT, status |-> WS_ALT, confidence |-> score_confidence(old)]
        ELSE IF reaches_threshold(modern)
        THEN [result |-> SR_MODERN, status |-> WS_MODERN,
              confidence |-> score_confidence(modern)]
        ELSE IF old > modern
        THEN [result |-> SR_ALT, status |-> WS_ALT, confidence |-> 60]
        ELSE IF modern > old
        THEN [result |-> SR_MODERN, status |-> WS_MODERN, confidence |-> 60]
        ELSE [result |-> SR_UNKLAR, status |-> WS_UNBEKANNT, confidence |-> 30]

make_final_decision(url_res, header_res, html_res, signals, methods) ==
    LET d == final_decision(url_res.result, header_res.result, html_res.result)
    IN  build_result(d.result, d.status, d.confidence, signals, methods)

InitScanner ==
    /\ sc_pc = "idle"
    /\ depth = NORMAL
    /\ url_result = NoResult
    /\ header_result = NoResult
    /\ html_result = NoResult
    /\ all_signals = <<>>
    /\ check_methods = <<>>
    /\ scan_result = NoScan
    /\ lead_analysis = NotChecked
    /\ scanned_count = 0
    /\ results_by_type = [r \in ScanResult |-> 0]
    /\ probes = <<>>

\* "return result" after "self._results_by_type[...] += 1"
Return(res) ==
    /\ scan_result' = res
    /\ results_by_type' = [results_by_type EXCEPT ![res.result] = @ + 1]
    /\ sc_pc' = "returned"

\* scan goes on to its next stage
GoOn(stage) ==
    /\ sc_pc' = stage
    /\ UNCHANGED <<scan_result, results_by_type>>

\* scan, up to the end of stage 1
UrlStage(url, d) ==
    /\ sc_pc = "idle"
    /\ scanned_count < MaxScans
    /\ scanned_count' = scanned_count + 1
    /\ depth' = d
    /\ LET url_res == analyze(url)
           signals == prefixed("url", url_res.signals)
           methods == <<"url_heuristic">>
       IN  /\ url_result' = url_res
           /\ all_signals' = signals
           /\ check_methods' = methods
           /\ IF runs_header_check(url_res, d)
              THEN GoOn("stage2")
              ELSE Return(stage1_result(url_res, d, signals, methods))
    /\ UNCHANGED <<header_result, html_result, lead_analysis, probes>>

\* scan, stage 2: the header check and the decisions after it
HeaderStage(response) ==
    /\ sc_pc = "stage2"
    /\ probes' = Append(probes, "HEAD")
    /\ LET header_res == check(response)
           signals == all_signals \o prefixed("header", header_res.signals)
           methods == Append(check_methods, "header_check")
       IN  /\ header_result' = header_res
           /\ all_signals' = signals
           /\ check_methods' = methods
           /\ IF runs_html_scan(url_result, header_res, depth)
              THEN GoOn("stage3")
              ELSE Return(stage2_result(url_result, header_res, signals, methods))
    /\ UNCHANGED <<depth, url_result, html_result, lead_analysis, scanned_count>>

\* scan, stage 3: the HTML scan and the final decision
HtmlStage(response) ==
    /\ sc_pc = "stage3"
    /\ probes' = Append(probes, "GET")
    /\ LET html_res == html_scan(response)
           signals == all_signals \o prefixed("html", html_res.signals)
           methods == Append(check_methods, "html_scan")
       IN  /\ html_result' = html_res
           /\ all_signals' = signals
           /\ check_methods' = methods
           /\ Return(make_final_decision(url_result, header_result, html_res,
                                         signals, methods))
    /\ UNCHANGED <<depth, url_result, header_result, lead_analysis, scanned_count>>

\* update_lead_analysis, as _stage3_check_websites calls it on the result
UpdateLeadAnalysis ==
    /\ sc_pc = "returned"
    /\ sc_pc' = "updated"
    /\ lead_analysis' = [status |-> scan_result.website_status,
                         signale |-> scan_result.signals,
                         check_methode |-> join(scan_result.check_methods)]
    /\ UNCHANGED <<depth, url_result, header_result, html_result, all_signals,
                   check_methods, scan_result, scanned_count, results_by_type, probes>>

\* _stage3_check_websites turns to its next lead
NextLead ==
    /\ sc_pc = "updated"
    /\ sc_pc' = "idle"
    /\ url_result' = NoResult
    /\ header_result' = NoResult
    /\ html_result' = NoResult
    /\ all_signals' = <<>>
    /\ check_methods' = <<>>
    /\ scan_result' = NoScan
    /\ lead_analysis' = NotChecked
    /\ probes' = <<>>
    /\ UNCHANGED <<depth, scanned_count, results_by_type>>

(***************************************************************************)
(* The matching utilities (src/src/utils/matching.py) and the              *)
(* LeadAggregator (src/src/pipeline/aggregator.py) on their own.           *)
(*                                                                         *)
(* A string is a sequence of one-character strings; None and the empty     *)
(* string, which every test of the code treats alike ("if not phone"),     *)
(* are both the empty sequence.                                            *)
(***************************************************************************)
Digit == {"0", "1", "2", "3", "4", "5", "6", "7", "8", "9"}

\* whether s begins with prefix: str.startswith
startswith(s, prefix) ==
    /\ Len(s) >= Len(prefix)
    /\ SubSeq(s, 1, Len(prefix)) = prefix

\* s[n:]
drop(s, n) == SubSeq(s, n + 1, Len(s))

\* whether needle occurs in hay: the operator "in" on strings
contains(hay, needle) ==
    \E k \in 0..(Len(hay) - Len(needle)) : SubSeq(hay, k + 1, k + Len(needle)) = needle

\* re.sub(r"\D", "", s)
only_digits(s) == SelectSeq(s, LAMBDA c : c \in Digit)

\* normalize_phone: "Deutsche Ländervorwahl entfernen"
strip_country_code(d) ==
    IF startswith(d, <<"4", "9">>) /\ Len(d) > 10 THEN drop(d, 2)
    ELSE IF startswith(d, <<"0", "0", "4", "9">>) /\ Len(d) > 12 THEN drop(d, 4)
    ELSE d

\* normalize_phone: "Führende 0 entfernen"
strip_leading_zero(d) == IF startswith(d, <<"0">>) THEN drop(d, 1) ELSE d

normalize_phone(p) ==
    IF p = <<>> THEN <<>>
    ELSE strip_leading_zero(strip_country_code(only_digits(p)))

\* ---- the phone numbers of the model ----
\* what a number is written in front of its subscriber part
PhonePrefixes ==
    { <<>>,
      <<"0">>,
      <<"0", "0">>,
      <<"4", "9">>,
      <<"+", "4", "9", " ">>,
      <<"+", "4", "9", " ", "0">>,
      <<"0", "0", "4", "9", " ">> }

\* area code and subscriber number, as written
PhoneBodies ==
    { <<>>,
      <<"3", "0", " ", "1", "2", "3", "4", "5", "6">>,
      <<"3", "0", " ", "1", "2", "3", "4", "5", "6", "7", "8">>,
      <<"3", "0", "/", "1", "2", "3", "9", "4", "5", "6", "7", "8">>,
      <<"8", "9", "-", "1", "2", "3", "4", "5", "6", "7", "8">>,
      <<"1", "2", "3", "4", "5", "6">> }

Phones == {pre \o body : pre \in PhonePrefixes, body \in PhoneBodies}

\* ---- text ----
Upper == <<"A", "B", "C", "F", "G", "H", "K", "M", "P", "S", "Ü">>
LowerOf == <<"a", "b", "c", "f", "g", "h", "k", "m", "p", "s", "ü">>

\* str.lower on one character
lower(c) ==
    IF \E i \in 1..Len(Upper) : Upper[i] = c
    THEN LowerOf[CHOOSE i \in 1..Len(Upper) : Upper[i] = c]
    ELSE c

\* umlaut_map, applied to one lowercase character
umlaut(c) ==
    CASE c = "ä" -> <<"a", "e">>
      [] c = "ö" -> <<"o", "e">>
      [] c = "ü" -> <<"u", "e">>
      [] c = "ß" -> <<"s", "s">>
      [] OTHER -> <<c>>

RECURSIVE lower_umlaut(_)
\* name.lower() followed by the umlaut replacements
lower_umlaut(s) ==
    IF s = <<>> THEN <<>> ELSE umlaut(lower(Head(s))) \o lower_umlaut(Tail(s))

\* the characters \w matches once the text is lowercase and without umlauts
WordChar ==
    Digit \cup {"a", "b", "c", "d", "e", "f", "g", "h", "i", "j", "k", "l", "m", "n", "o",
                "p", "q", "r", "s", "t", "u", "v", "w", "x", "y", "z", "_"}

RECURSIVE split(_, _)
\* the words of s, cur being the word that is being read: s.split()
split(s, cur) ==
    IF s = <<>> THEN (IF cur = <<>> THEN <<>> ELSE <<cur>>)
    ELSE IF Head(s) = " " THEN (IF cur = <<>> THEN <<>> ELSE <<cur>>) \o split(Tail(s), <<>>)
    ELSE split(Tail(s), Append(cur, Head(s)))

RECURSIVE join_words(_)
\* " ".join(words)
join_words(words) ==
    IF words = <<>> THEN <<>>
    ELSE IF Len(words) = 1 THEN words[1]
    ELSE words[1] \o <<" ">> \o join_words(Tail(words))

\* re.sub(r"[^\w\s]", "", word)
only_word_chars(word) == SelectSeq(word, LAMBDA c : c \in WordChar)

\* the words of rechtsformen that the names of the model can hold
Rechtsformen ==
    { <<"g", "m", "b", "h">>, <<"a", "g">>, <<"k", "g">>, <<"c", "o">>,
      <<"p", "a", "r", "t", "n", "e", "r">> }

\* what the rechtsformen patterns and the removal of special characters leave
\* of one word: the patterns are anchored at word boundaries, so a word goes
\* when it is a legal form, with or without its full stop
name_word(word) ==
    IF only_word_chars(word) \in Rechtsformen THEN <<>> ELSE only_word_chars(word)

\* whitespace is collapsed and stripped: the words left, one space apart
squeeze(words) == join_words(SelectSeq(words, LAMBDA w : w # <<>>))

normalize_name(name) ==
    IF name = <<>> THEN <<>>
    ELSE LET words == split(lower_umlaut(name), <<>>)
         IN  squeeze([i \in 1..Len(words) |-> name_word(words[i])])

\* street_patterns: "str" and "str." standing alone become "strasse"
address_word(word) ==
    IF only_word_chars(word) = <<"s", "t", "r">> /\ word \in {<<"s", "t", "r">>, <<"s", "t", "r", ".">>}
    THEN <<"s", "t", "r", "a", "s", "s", "e">>
    ELSE only_word_chars(word)

normalize_address(address) ==
    IF address = <<>> THEN <<>>
    ELSE LET words == split(lower_umlaut(address), <<>>)
         IN  squeeze([i \in 1..Len(words) |-> address_word(words[i])])

\* Address.format_full
format_full(adresse) ==
    LET street == IF adresse.strasse = <<>> THEN <<>>
                  ELSE IF adresse.hausnummer = <<>> THEN <<adresse.strasse>>
                  ELSE <<adresse.strasse \o <<" ">> \o adresse.hausnummer>>
        town   == IF adresse.plz # <<>> /\ adresse.stadt # <<>>
                  THEN <<adresse.plz \o <<" ">> \o adresse.stadt>>
                  ELSE IF adresse.stadt # <<>> THEN <<adresse.stadt>>
                  ELSE <<>>
        parts  == street \o town
    IN  IF parts = <<>> THEN <<>>
        ELSE IF Len(parts) = 1 THEN parts[1]
        ELSE parts[1] \o <<",", " ">> \o parts[2]

\* ---- similarity ----
RECURSIVE lcs_row(_, _, _, _)
\* one row of the longest-common-subsequence table: prev is the row above,
\* acc the part of this row that is filled in (both start with column 0)
lcs_row(prev, ch, b, acc) ==
    LET j == Len(acc)
    IN  IF j > Len(b) THEN acc
        ELSE lcs_row(prev, ch, b,
                     Append(acc, IF b[j] = ch THEN prev[j] + 1
                                 ELSE Max(prev[j + 1], acc[j])))

RECURSIVE lcs_rows(_, _, _, _)
lcs_rows(a, b, i, prev) ==
    IF Len(prev) = Len(b) + 1 /\ i <= Len(a)
    THEN lcs_rows(a, b, i + 1, lcs_row(prev, a[i], b, <<0>>))
    ELSE prev[Len(b) + 1]

\* length of the longest common subsequence of a and b
lcs(a, b) == lcs_rows(a, b, 1, [k \in 1..(Len(b) + 1) |-> 0])

RECURSIVE gcd(_, _)
gcd(a, b) == IF b = 0 THEN a ELSE gcd(b, a % b)

\* the fraction n/d in lowest terms; the floats of the code are fractions here
Rat(n, d) == [n |-> n \div gcd(n, d), d |-> d \div gcd(n, d)]

RatGE(x, y) == x.n * y.d >= y.n * x.d
RatGT(x, y) == x.n * y.d > y.n * x.d
RatAdd(x, y) == Rat(x.n * y.d + y.n * x.d, x.d * y.d)
RatMul(x, y) == Rat(x.n * y.n, x.d * y.d)
RatDiv(x, y) == Rat(x.n * y.d, x.d * y.n)
RatMax(x, y) == IF RatGE(x, y) THEN x ELSE y
RatMin(x, y) == IF RatGE(x, y) THEN y ELSE x

\* Levenshtein.ratio: (len(a) + len(b) - distance) / (len(a) + len(b)), where a
\* substitution costs 2, which is 2 * lcs / (len(a) + len(b))
levenshtein_ratio(a, b) == Rat(2 * lcs(a, b), Len(a) + Len(b))

similarity_score(a, b) ==
    IF a = <<>> \/ b = <<>> THEN Rat(0, 1) ELSE levenshtein_ratio(a, b)

\* a pair (is_match, confidence)
Pair(is_match, confidence) == [is_match |-> is_match, confidence |-> confidence]

is_phone_match(phone1, phone2) ==
    LET norm1 == normalize_phone(phone1)
        norm2 == normalize_phone(phone2)
        similarity == similarity_score(norm1, norm2)
    IN  IF phone1 = <<>> \/ phone2 = <<>> THEN Pair(FALSE, Rat(0, 1))
        ELSE IF norm1 = <<>> \/ norm2 = <<>> THEN Pair(FALSE, Rat(0, 1))
        ELSE IF norm1 = norm2 THEN Pair(TRUE, Rat(1, 1))
        ELSE IF /\ contains(norm2, norm1) \/ contains(norm1, norm2)
                /\ Min(Len(norm1), Len(norm2)) >= 6
             THEN Pair(TRUE, Rat(9, 10))
        ELSE IF RatGE(similarity, Rat(9, 10)) THEN Pair(TRUE, similarity)
        ELSE Pair(FALSE, similarity)

\* is_name_match with its default threshold 0.85
is_name_match(name1, name2) ==
    LET norm1 == normalize_name(name1)
        norm2 == normalize_name(name2)
        similarity == similarity_score(norm1, norm2)
    IN  IF name1 = <<>> \/ name2 = <<>> THEN Pair(FALSE, Rat(0, 1))
        ELSE IF norm1 = <<>> \/ norm2 = <<>> THEN Pair(FALSE, Rat(0, 1))
        ELSE IF norm1 = norm2 THEN Pair(TRUE, Rat(1, 1))
        ELSE IF RatGE(similarity, Rat(85, 100)) THEN Pair(TRUE, similarity)
        ELSE IF /\ Len(norm1) > 3 /\ Len(norm2) > 3
                /\ contains(norm2, norm1) \/ contains(norm1, norm2)
             THEN Pair(TRUE, Rat(85, 100))
        ELSE Pair(FALSE, similarity)

\* is_address_match with its default threshold 0.8
is_address_match(addr1, plz1, addr2, plz2) ==
    LET plz_match == /\ plz1 # <<>> /\ plz2 # <<>>
                     /\ only_digits(plz1) = only_digits(plz2)
        norm1 == normalize_address(addr1)
        norm2 == normalize_address(addr2)
        similarity == similarity_score(norm1, norm2)
    IN  IF plz1 # <<>> /\ plz2 # <<>> /\ ~plz_match THEN Pair(FALSE, Rat(0, 1))
        ELSE IF addr1 = <<>> \/ addr2 = <<>> \/ norm1 = <<>> \/ norm2 = <<>>
             THEN (IF plz_match THEN Pair(TRUE, Rat(7, 10)) ELSE Pair(FALSE, Rat(0, 1)))
        ELSE IF plz_match /\ RatGE(similarity, Rat(1, 2))
             THEN Pair(TRUE, RatMin(Rat(1, 1), RatAdd(similarity, Rat(3, 10))))
        ELSE IF RatGE(similarity, Rat(8, 10)) THEN Pair(TRUE, similarity)
        ELSE Pair(FALSE, similarity)

\* AggregatorConfig, as the aggregator hands it to is_duplicate
phone_match_weight == Rat(1, 1)
name_match_weight == Rat(8, 10)
address_match_weight == Rat(6, 10)
min_similarity_threshold == Rat(85, 100)

MatchResult(is_match, confidence, match_reasons, mismatch_reasons) ==
    [is_match |-> is_match, confidence |-> confidence,
     match_reasons |-> match_reasons, mismatch_reasons |-> mismatch_reasons]

\* is_duplicate; the reasons are kept without the confidences printed into them
is_duplicate(a, b) ==
    LET has_phones == a.telefon # <<>> /\ b.telefon # <<>>
        ph == is_phone_match(a.telefon, b.telefon)
        nm == is_name_match(a.firmenname, b.firmenname)
        addr_a == format_full(a.adresse)
        addr_b == format_full(b.adresse)
        plz_a == a.adresse.plz
        plz_b == b.adresse.plz
        has_addr == addr_a # <<>> \/ addr_b # <<>> \/ plz_a # <<>> \/ plz_b # <<>>
        ad == is_address_match(addr_a, plz_a, addr_b, plz_b)
        total_score ==
            RatAdd(IF has_phones /\ ph.is_match
                   THEN RatMul(ph.confidence, phone_match_weight) ELSE Rat(0, 1),
            RatAdd(IF nm.is_match
                   THEN RatMul(nm.confidence, name_match_weight) ELSE Rat(0, 1),
                   IF has_addr /\ ad.is_match
                   THEN RatMul(ad.confidence, address_match_weight) ELSE Rat(0, 1)))
        total_weight ==
            RatAdd(IF has_phones THEN phone_match_weight ELSE Rat(0, 1),
            RatAdd(name_match_weight,
                   IF has_addr THEN address_match_weight ELSE Rat(0, 1)))
        weighted == RatDiv(total_score, total_weight)
        name_plz == nm.is_match /\ plz_a # <<>> /\ plz_b # <<>> /\ plz_a = plz_b
        confidence == IF name_plz THEN RatMax(weighted, Rat(9, 10)) ELSE weighted
        match_reasons ==
            (IF has_phones /\ ph.is_match THEN <<"phone">> ELSE <<>>)
            \o (IF nm.is_match THEN <<"name">> ELSE <<>>)
            \o (IF has_addr /\ ad.is_match THEN <<"address">> ELSE <<>>)
            \o (IF name_plz THEN <<"plz_exact">> ELSE <<>>)
        mismatch_reasons ==
            (IF has_phones /\ ~ph.is_match THEN <<"phone">> ELSE <<>>)
            \o (IF ~nm.is_match THEN <<"name">> ELSE <<>>)
            \o (IF has_addr /\ ~ad.is_match THEN <<"address">> ELSE <<>>)
    IN  IF has_phones /\ ph.is_match /\ RatGE(ph.confidence, Rat(95, 100))
        THEN MatchResult(TRUE, ph.confidence, <<"phone_exact">>, <<>>)
        ELSE MatchResult(RatGE(confidence, min_similarity_threshold), confidence,
                         match_reasons, mismatch_reasons)

\* ---- leads ----
\* Optional fields other than texts hold "" for None, the ratings -1 for None.
\* The ratings are in tenths: 0 is the rating 0.0.
NoRating == -1

MuellerName == <<"M", "ü", "l", "l", "e", "r">>
MuellerGmbHName == <<"M", "u", "e", "l", "l", "e", "r", " ", "G", "m", "b", "H">>
SalonMuellerName == <<"S", "a", "l", "o", "n", " ", "M", "ü", "l", "l", "e", "r">>
BeautyName == <<"B", "e", "a", "u", "t", "y", " ", "A", "G">>
PartnerName == <<"P", "a", "r", "t", "n", "e", "r", " ", "G", "m", "b", "H">>

Firmennamen == {MuellerName, MuellerGmbHName, SalonMuellerName, BeautyName, PartnerName}

PhoneBerlin == <<"+", "4", "9", " ", "3", "0", " ", "1", "2", "3", "4", "5", "6", "7", "8">>
PhoneBerlinLocal == <<"0", "3", "0", " ", "1", "2", "3", "4", "5", "6", "7", "8">>
PhoneBerlinTypo == <<"0", "3", "0", "/", "1", "2", "3", "9", "4", "5", "6", "7", "8">>
PhoneBerlinShort == <<"0", "3", "0", " ", "1", "2", "3", "4", "5", "6">>
PhoneMunich == <<"0", "8", "9", "-", "1", "2", "3", "4", "5", "6", "7", "8">>

\* the telefon values of the leads; every one is a member of Phones
Telefone == {<<>>, PhoneBerlin, PhoneBerlinLocal, PhoneBerlinTypo, PhoneBerlinShort, PhoneMunich}

Hauptstr == <<"H", "a", "u", "p", "t", "s", "t", "r", ".">>
Berlin == <<"B", "e", "r", "l", "i", "n">>
Plz10115 == <<"1", "0", "1", "1", "5">>
Plz10117 == <<"1", "0", "1", "1", "7">>

Address(strasse, hausnummer, plz, stadt) ==
    [strasse |-> strasse, hausnummer |-> hausnummer, plz |-> plz, stadt |-> stadt]

Adressen ==
    { Address(Hauptstr, <<"1">>, Plz10115, Berlin),
      Address(Hauptstr, <<"1">>, Plz10117, Berlin),
      Address(<<>>, <<>>, Plz10115, Berlin),
      Address(<<>>, <<>>, <<>>, Berlin) }

\* Lead(...): a lead of one source with the contact data given
Lead(firmenname, telefon, adresse, quelle) ==
    [firmenname |-> firmenname, telefon |-> telefon, email |-> "", website_url |-> "",
     oeffnungszeiten |-> "", bewertung |-> NoRating, bewertung_anzahl |-> NoRating,
     adresse |-> adresse, quellen |-> {quelle},
     google_maps_place_id |-> IF quelle = GM THEN "ChIJ" ELSE "",
     gelbe_seiten_url |-> IF quelle = GS THEN "https://gs.de/1" ELSE ""]

\* the leads is_duplicate is handed
MatchLeads(quelle) ==
    {Lead(n, t, a, quelle) : n \in Firmennamen, t \in Telefone, a \in Adressen}

\* the map-service leads the directory leads are compared with
MatchPartners ==
    {Lead(n, t, a, GM) : n \in {MuellerGmbHName, SalonMuellerName, BeautyName},
                         t \in {<<>>, PhoneBerlinLocal, PhoneMunich},
                         a \in {Address(Hauptstr, <<"1">>, Plz10115, Berlin),
                                Address(<<>>, <<>>, <<>>, Berlin)}}

\* the value before any call
NoLead == Lead(<<>>, <<>>, Address(<<>>, <<>>, <<>>, <<>>), GS)
NoMatch == MatchResult(FALSE, Rat(0, 1), <<>>, <<>>)

\* ---- merge_leads on the fields of a lead ----
Weg == <<"W", "e", "g">>

\* primaries with every choice of the fields present; 0 is the rating 0.0
MergePrimaries ==
    { [Lead(MuellerName, t, Address(s, h, p, Berlin), GS)
         EXCEPT !.email = e, !.website_url = w, !.oeffnungszeiten = o,
                !.bewertung = r, !.bewertung_anzahl = c] :
        t \in {<<>>, PhoneBerlin}, e \in {"", "p@x.de"}, w \in {"", "https://p.de"},
        o \in {"", "Mo 9-17"}, r \in {NoRating, 0, 45}, c \in {NoRating, 12},
        s \in {<<>>, Hauptstr}, h \in {<<>>, <<"1">>}, p \in {<<>>, Plz10115} }

\* a secondary with every field, one with a rating that has no count, one with nothing
MergeSecondaries ==
    { [Lead(MuellerGmbHName, PhoneMunich, Address(Weg, <<"7">>, Plz10117, Berlin), GM)
         EXCEPT !.email = "s@x.de", !.website_url = "https://s.de",
                !.oeffnungszeiten = "Mo 8-16", !.bewertung = 40, !.bewertung_anzahl = 7],
      [Lead(MuellerGmbHName, <<>>, Address(<<>>, <<>>, <<>>, Berlin), GM)
         EXCEPT !.bewertung = 40],
      Lead(MuellerGmbHName, <<>>, Address(<<>>, <<>>, <<>>, Berlin), GM) }

\* "not primary.bewertung": None and 0.0 alike
rating_is_falsy(bewertung) == bewertung \in {NoRating, 0}

\* merge_leads (matching.py), field by field
merge_lead_fields(primary, secondary) ==
    LET fill(p, s) == IF p = "" /\ s # "" THEN s ELSE p
        fill_text(p, s) == IF p = <<>> /\ s # <<>> THEN s ELSE p
        take_rating == rating_is_falsy(primary.bewertung) /\ ~rating_is_falsy(secondary.bewertung)
        take_place == secondary.google_maps_place_id # "" /\ primary.google_maps_place_id = ""
    IN  [firmenname |-> primary.firmenname,
         telefon |-> fill_text(primary.telefon, secondary.telefon),
         email |-> fill(primary.email, secondary.email),
         website_url |-> fill(primary.website_url, secondary.website_url),
         oeffnungszeiten |-> fill(primary.oeffnungszeiten, secondary.oeffnungszeiten),
         bewertung |-> IF take_rating THEN secondary.bewertung ELSE primary.bewertung,
         bewertung_anzahl |-> IF take_rating THEN secondary.bewertung_anzahl
                              ELSE primary.bewertung_anzahl,
         adresse |-> [strasse |-> fill_text(primary.adresse.strasse, secondary.adresse.strasse),
                      hausnummer |-> fill_text(primary.adresse.hausnummer,
                                               secondary.adresse.hausnummer),
                      plz |-> fill_text(primary.adresse.plz, secondary.adresse.plz),
                      stadt |-> primary.adresse.stadt],
         quellen |-> primary.quellen \cup secondary.quellen,
         google_maps_place_id |-> IF take_place THEN secondary.google_maps_place_id
                                  ELSE primary.google_maps_place_id,
         gelbe_seiten_url |-> fill(primary.gelbe_seiten_url, secondary.gelbe_seiten_url)]

\* ---- LeadAggregator.aggregate ----
\* the one element of a set: how a value computed once is handed on
the(S) == CHOOSE x \in S : TRUE

RECURSIVE best_match(_, _, _, _, _)
\* the inner loop of aggregate from position i on: the index of the first lead
\* of res with the highest confidence among those is_duplicate accepts, 0 for none
best_match(res, gm_lead, i, match_index, best_confidence) ==
    IF i > Len(res) THEN match_index
    ELSE the({ IF m.is_match /\ RatGT(m.confidence, best_confidence)
               THEN best_match(res, gm_lead, i + 1, i, m.confidence)
               ELSE best_match(res, gm_lead, i + 1, match_index, best_confidence) :
               m \in {is_duplicate(res[i], gm_lead)} })

AggregationStats(duplicates_found, merged_leads, unique_leads) ==
    [duplicates_found |-> duplicates_found, merged_leads |-> merged_leads,
     unique_leads |-> unique_leads]

\* one turn of the outer loop of aggregate: the lead of the other source is
\* merged into its best match or appended
aggregate_one(res, gm_lead, stats) ==
    the({ IF match_index # 0
          THEN [leads |-> [res EXCEPT ![match_index] =
                                 merge_lead_fields(res[match_index], gm_lead)],
                stats |-> AggregationStats(stats.duplicates_found + 1,
                                           stats.merged_leads + 1, stats.unique_leads)]
          ELSE [leads |-> Append(res, gm_lead),
                stats |-> AggregationStats(stats.duplicates_found, stats.merged_leads,
                                           stats.unique_leads + 1)] :
          match_index \in {best_match(res, gm_lead, 1, 0, Rat(0, 1))} })

RECURSIVE aggregate_from(_, _, _)
\* the outer loop of aggregate: [leads, stats] once gms is used up
aggregate_from(res, gms, stats) ==
    IF gms = <<>> THEN [leads |-> res, stats |-> stats]
    ELSE the({ aggregate_from(one.leads, Tail(gms), one.stats) :
               one \in {aggregate_one(res, Head(gms), stats)} })

aggregate_leads(gelbe_seiten_leads, google_maps_leads) ==
    aggregate_from(gelbe_seiten_leads, google_maps_leads, AggregationStats(0, 0, 0))

\* the lead as the other source reports it
tagged(lead, quelle) ==
    [lead EXCEPT !.quellen = {quelle},
                 !.google_maps_place_id = IF quelle = GM THEN "ChIJ" ELSE "",
                 !.gelbe_seiten_url = IF quelle = GS THEN "https://gs.de/1" ELSE ""]

\* the leads the lists handed to aggregate are made of
AggLeads ==
    { Lead(MuellerName, PhoneBerlin, Address(Hauptstr, <<"1">>, Plz10115, Berlin), GS),
      Lead(MuellerGmbHName, PhoneBerlinLocal, Address(<<>>, <<>>, <<>>, Berlin), GS),
      Lead(BeautyName, PhoneMunich, Address(Hauptstr, <<"1">>, Plz10117, Berlin), GS),
      Lead(BeautyName, <<>>, Address(<<>>, <<>>, <<>>, Berlin), GS),
      Lead(PartnerName, <<>>, Address(Hauptstr, <<"1">>, Plz10115, Berlin), GS),
      Lead(SalonMuellerName, PhoneBerlinTypo, Address(<<>>, <<>>, Plz10115, Berlin), GS) }

\* the lists of at most two leads
AggLists ==
    {<<>>} \cup {<<l>> : l \in AggLeads} \cup {<<l1, l2>> : l1 \in AggLeads, l2 \in AggLeads}

\* ---- the calls ----
InitMatcher ==
    /\ mt_pc = "idle"
    /\ phone = <<>>
    /\ digits = <<>>
    /\ digits_again = <<>>
    /\ lead_a = NoLead
    /\ lead_b = NoLead
    /\ match_result = NoMatch
    /\ merged = NoLead
    /\ agg_gs = <<>>
    /\ agg_gm = <<>>
    /\ agg_result = <<>>
    /\ agg_stats = AggregationStats(0, 0, 0)

\* normalize_phone(p)
NormalizePhone(p) ==
    /\ mt_pc = "idle"
    /\ mt_pc' = "normalized"
    /\ phone' = p
    /\ digits' = normalize_phone(p)
    /\ UNCHANGED <<digits_again, lead_a, lead_b, match_result, merged,
                   agg_gs, agg_gm, agg_result, agg_stats>>

\* normalize_phone on what normalize_phone returned
NormalizeAgain ==
    /\ mt_pc = "normalized"
    /\ mt_pc' = "renormalized"
    /\ digits_again' = normalize_phone(digits)
    /\ UNCHANGED <<phone, digits, lead_a, lead_b, match_result, merged,
                   agg_gs, agg_gm, agg_result, agg_stats>>

\* is_duplicate(a, b) as the aggregator calls it
IsDuplicate(a, b) ==
    /\ mt_pc = "idle"
    /\ mt_pc' = "matched"
    /\ lead_a' = a
    /\ lead_b' = b
    /\ match_result' = is_duplicate(a, b)
    /\ UNCHANGED <<phone, digits, digits_again, merged, agg_gs, agg_gm, agg_result, agg_stats>>

\* merge_leads(primary, secondary)
MergeLeads(primary, secondary) ==
    /\ mt_pc = "idle"
    /\ mt_pc' = "merged"
    /\ lead_a' = primary
    /\ lead_b' = secondary
    /\ merged' = merge_lead_fields(primary, secondary)
    /\ UNCHANGED <<phone, digits, digits_again, match_result, agg_gs, agg_gm, agg_result,
                   agg_stats>>

\* LeadAggregator.aggregate(gs, gm)
Aggregate(gs, gm) ==
    /\ mt_pc = "idle"
    /\ mt_pc' = "aggregated"
    /\ agg_gs' = gs
    /\ agg_gm' = gm
    /\ \E out \in {aggregate_leads(gs, gm)} :
          /\ agg_result' = out.leads
          /\ agg_stats' = out.stats
    /\ UNCHANGED <<phone, digits, digits_again, lead_a, lead_b, match_result, merged>>

\* the next call starts from fresh values
MatcherReturn ==
    /\ mt_pc # "idle"
    /\ mt_pc' = "idle"
    /\ phone' = <<>>
    /\ digits' = <<>>
    /\ digits_again' = <<>>
    /\ lead_a' = NoLead
    /\ lead_b' = NoLead
    /\ match_result' = NoMatch
    /\ merged' = NoLead
    /\ agg_gs' = <<>>
    /\ agg_gm' = <<>>
    /\ agg_result' = <<>>
    /\ agg_stats' = AggregationStats(0, 0, 0)

(***************************************************************************)
(* LeadFilter (src/src/pipeline/filters.py) and Pipeline._stage4_filter_   *)
(* leads on leads that carry the fields the gates read.                    *)
(***************************************************************************)
\* the names of the leads, in the order of str comparison
NameOrder == <<"Firma A", "Firma B", "Firma C">>

\* a lead as the filter reads it: presence of the contact fields, the verdict
FilterLead(firmenname, status, telefon, email, strasse, plz) ==
    [firmenname |-> firmenname, status |-> status, telefon |-> telefon, email |-> email,
     strasse |-> strasse, plz |-> plz]

\* Lead.qualitaet_score of a lead without website, rating, hours and description
lead_score(lead) ==
    (IF lead.telefon THEN 20 ELSE 0)
    + (IF lead.email THEN 25 ELSE 0)
    + (IF lead.strasse /\ lead.plz THEN 15 ELSE IF lead.strasse \/ lead.plz THEN 7 ELSE 0)

FilterResult(included, reason) == [included |-> included, reason |-> reason]

\* a reason is its text and the number the code prints into it (0 for none)
Reason(name, arg) == [name |-> name, arg |-> arg]
NoReason == Reason("", 0)
Included == FilterResult(TRUE, NoReason)

\* LeadFilter._check_website_status
filter_check_website_status(config, lead) ==
    CASE lead.status = "keine" ->
           IF config.include_no_website THEN Included
           ELSE FilterResult(FALSE, Reason("website_status_keine", 0))
      [] lead.status = "alt" ->
           IF config.include_old_website THEN Included
           ELSE FilterResult(FALSE, Reason("website_status_alt", 0))
      [] lead.status = "modern" ->
           IF config.include_modern_website THEN Included
           ELSE FilterResult(FALSE, Reason("website_status_modern", 0))
      [] lead.status = "unbekannt" ->
           IF config.include_unknown_website THEN Included
           ELSE FilterResult(FALSE, Reason("website_status_unbekannt", 0))
      [] OTHER -> Included

\* LeadFilter._check_quality_score
filter_check_quality_score(config, lead) ==
    IF lead_score(lead) < config.min_quality_score
    THEN FilterResult(FALSE, Reason("quality_score_too_low", lead_score(lead)))
    ELSE Included

\* LeadFilter._check_required_fields
check_required_fields(config, lead) ==
    IF config.require_phone /\ ~lead.telefon THEN FilterResult(FALSE, Reason("missing_phone", 0))
    ELSE IF config.require_email /\ ~lead.email
         THEN FilterResult(FALSE, Reason("missing_email", 0))
    ELSE IF config.require_address /\ (~lead.strasse \/ ~lead.plz)
         THEN FilterResult(FALSE, Reason("missing_address", 0))
    ELSE Included

\* the names create_blacklist_filter(["firma c"]) blocks
Blacklisted == {"Firma C"}

\* a custom filter: "blacklist" is the function create_blacklist_filter returns
custom_filter(f, lead) ==
    IF f = "blacklist" /\ lead.firmenname \in Blacklisted
    THEN FilterResult(FALSE, Reason("blacklist_firma c", 0))
    ELSE Included

RECURSIVE check_custom_filters(_, _)
\* the loop over _custom_filters: the first result that excludes
check_custom_filters(fs, lead) ==
    IF fs = <<>> THEN Included
    ELSE IF ~custom_filter(Head(fs), lead).included THEN custom_filter(Head(fs), lead)
    ELSE check_custom_filters(Tail(fs), lead)

\* mutant of filter_should_include: the quality gate is asked first
filter_should_include_quality_first(config, fs, lead) ==
    IF ~filter_check_quality_score(config, lead).included
    THEN filter_check_quality_score(config, lead)
    ELSE IF ~filter_check_website_status(config, lead).included
    THEN filter_check_website_status(config, lead)
    ELSE IF ~check_required_fields(config, lead).included
    THEN check_required_fields(config, lead)
    ELSE check_custom_filters(fs, lead)

\* LeadFilter.should_include: the FilterResult it returns
filter_should_include(config, fs, lead) ==
    IF ~filter_check_website_status(config, lead).included
    THEN filter_check_website_status(config, lead)
    ELSE IF ~filter_check_quality_score(config, lead).included
    THEN filter_check_quality_score(config, lead)
    ELSE IF ~check_required_fields(config, lead).included
    THEN check_required_fields(config, lead)
    ELSE check_custom_filters(fs, lead)

\* _record_exclusion: one more for the reason
record_exclusion(reasons, reason) ==
    IF reason = NoReason THEN reasons
    ELSE IF reason \in DOMAIN reasons THEN [reasons EXCEPT ![reason] = @ + 1]
    ELSE [r \in DOMAIN reasons \cup {reason} |-> IF r = reason THEN 1 ELSE reasons[r]]

RECURSIVE record_all(_, _)
\* _exclusion_reasons after the results rs on top of reasons
record_all(reasons, rs) ==
    IF rs = <<>> THEN reasons
    ELSE record_all(IF Head(rs).included THEN reasons
                    ELSE record_exclusion(reasons, Head(rs).reason), Tail(rs))

\* the results should_include returns for the leads, in order
results_of(config, fs, ls) ==
    [i \in 1..Len(ls) |-> filter_should_include(config, fs, ls[i])]

RECURSIVE keep_included(_, _)
\* filter_leads: the leads whose result is included, in order
keep_included(ls, rs) ==
    IF ls = <<>> THEN <<>>
    ELSE (IF Head(rs).included THEN <<Head(ls)>> ELSE <<>>)
         \o keep_included(Tail(ls), Tail(rs))

RECURSIVE insert_by_quality_unstable(_, _)
\* mutant of insert_by_quality: among equal scores the later lead comes first
insert_by_quality_unstable(x, s) ==
    IF s = <<>> THEN <<x>>
    ELSE IF lead_score(Head(s)) > lead_score(x)
         THEN <<Head(s)>> \o insert_by_quality_unstable(x, Tail(s))
         ELSE <<x>> \o s

RECURSIVE insert_by_quality(_, _)
\* where sorted(key=qualitaet_score, reverse=True) puts x among the leads s that
\* came before it: behind every lead with at least its score (the sort is stable)
insert_by_quality(x, s) ==
    IF s = <<>> THEN <<x>>
    ELSE IF lead_score(Head(s)) >= lead_score(x)
         THEN <<Head(s)>> \o insert_by_quality(x, Tail(s))
         ELSE <<x>> \o s

RECURSIVE sort_by_quality(_)
\* LeadFilter.sort_leads(leads, by="quality", reverse=True)
sort_by_quality(s) ==
    IF s = <<>> THEN <<>>
    ELSE insert_by_quality(s[Len(s)], sort_by_quality(SubSeq(s, 1, Len(s) - 1)))

\* ---- the configurations and leads of the model ----
FilterConfigs ==
    [include_no_website : BOOLEAN, include_old_website : BOOLEAN,
     include_modern_website : BOOLEAN, include_unknown_website : BOOLEAN,
     min_quality_score : {0, 30},
     require_phone : BOOLEAN, require_email : BOOLEAN, require_address : {FALSE}]
    \cup
    [include_no_website : {TRUE}, include_old_website : {TRUE},
     include_modern_website : BOOLEAN, include_unknown_website : {TRUE},
     min_quality_score : {0, 30},
     require_phone : BOOLEAN, require_email : {FALSE}, require_address : {TRUE}]

\* FilterConfig()
DefaultFilterConfig ==
    [include_no_website |-> TRUE, include_old_website |-> TRUE,
     include_modern_website |-> FALSE, include_unknown_website |-> TRUE,
     min_quality_score |-> 0,
     require_phone |-> FALSE, require_email |-> FALSE, require_address |-> FALSE]

FilterLeads ==
    { FilterLead("Firma A", "keine", TRUE, TRUE, TRUE, TRUE),
      FilterLead("Firma B", "keine", TRUE, TRUE, TRUE, TRUE),
      FilterLead("Firma B", "alt", TRUE, FALSE, FALSE, TRUE),
      FilterLead("Firma A", "unbekannt", TRUE, FALSE, TRUE, FALSE),
      FilterLead("Firma A", "modern", FALSE, FALSE, FALSE, FALSE),
      FilterLead("Firma C", "modern", TRUE, TRUE, TRUE, TRUE),
      FilterLead("Firma C", "alt", FALSE, FALSE, FALSE, TRUE),
      FilterLead("Firma B", "nicht_geprueft", FALSE, TRUE, FALSE, FALSE) }

\* the lists of at most two leads
FilterLists ==
    {<<>>} \cup {<<l>> : l \in FilterLeads}
           \cup {<<l1, l2>> : l1 \in FilterLeads, l2 \in FilterLeads}

\* a new LeadFilter, with any configuration
InitFilter ==
    /\ fl_pc = "idle"
    /\ filter_config \in FilterConfigs
    /\ custom_filters \in {<<>>, <<"blacklist">>}
    /\ stage4_leads = <<>>
    /\ filter_results = <<>>
    /\ filtered = <<>>
    /\ stage4_result = <<>>
    /\ exclusion_reasons = [r \in {} |-> 0]
    /\ total_processed = 0
    /\ total_included = 0

\* Pipeline._stage4_filter_leads(leads): filter_leads, then sort_leads
Stage4FilterLeads(ls) ==
    /\ fl_pc = "idle"
    /\ fl_pc' = "returned"
    /\ stage4_leads' = ls
    /\ filter_results' = results_of(filter_config, custom_filters, ls)
    /\ filtered' = keep_included(ls, filter_results')
    /\ stage4_result' = sort_by_quality(filtered')
    /\ exclusion_reasons' = record_all(exclusion_reasons, filter_results')
    /\ total_processed' = total_processed + Len(ls)
    /\ total_included' = total_included + Len(filtered')
    /\ UNCHANGED <<filter_config, custom_filters>>
NextMulti ==
    \/ StartRun /\ UNCHANGED notMultiVars
    \/ CategorySkip /\ UNCHANGED notMultiVars
    \/ CategoryScraped /\ UNCHANGED notMultiVars
    \/ CategoryCrashed /\ UNCHANGED notMultiVars
    \/ CategoryInterrupted /\ UNCHANGED notMultiVars
    \/ RunFinished /\ UNCHANGED notMultiVars

NextLimiter ==
    \/ \E c \in Callers, h \in Hosts : CallWait(c, h) /\ UNCHANGED notLimiterVars
    \/ \E c \in Callers : WaitEnter(c) /\ UNCHANGED notLimiterVars
    \/ \E c \in Callers : WakeCooldown(c) /\ UNCHANGED notLimiterVars
    \/ \E c \in Callers : WakePace(c) /\ UNCHANGED notLimiterVars
    \/ \E c \in Callers : Response(c) /\ UNCHANGED notLimiterVars
    \/ \E c \in Callers : ReportSuccess(c) /\ UNCHANGED notLimiterVars
    \/ \E c \in Callers : ReportError(c) /\ UNCHANGED notLimiterVars
    \/ Tick /\ UNCHANGED notLimiterVars

NextFetch ==
    \/ CallGetWithRetry /\ UNCHANGED notFetchVars
    \/ Attempt /\ UNCHANGED notFetchVars
    \/ RetrySleepDone /\ UNCHANGED notFetchVars
    \/ NextCall /\ UNCHANGED notFetchVars
    \/ HeadRequest /\ UNCHANGED notFetchVars

NextProxy ==
    \/ AddProxy /\ UNCHANGED notProxyVars
    \/ GetNextProxy /\ UNCHANGED notProxyVars
    \/ \E i \in 1..MaxProxies : ProxySuccess(i) /\ UNCHANGED notProxyVars
    \/ \E i \in 1..MaxProxies, block \in BOOLEAN : ProxyFailure(i, block) /\ UNCHANGED notProxyVars
    \/ ResetBlocked /\ UNCHANGED notProxyVars

NextScanner ==
    \/ \E url \in Urls, d \in WebsiteCheckDepth : UrlStage(url, d) /\ UNCHANGED notScannerVars
    \/ \E response \in HeadResponses : HeaderStage(response) /\ UNCHANGED notScannerVars
    \/ \E response \in GetResponses : HtmlStage(response) /\ UNCHANGED notScannerVars
    \/ UpdateLeadAnalysis /\ UNCHANGED notScannerVars
    \/ NextLead /\ UNCHANGED notScannerVars

NextMatcher ==
    \/ \E p \in Phones : NormalizePhone(p) /\ UNCHANGED notMatcherVars
    \/ NormalizeAgain /\ UNCHANGED notMatcherVars
    \/ \E a \in MatchLeads(GS), b \in MatchPartners : IsDuplicate(a, b) /\ UNCHANGED notMatcherVars
    \/ \E primary \in MergePrimaries, secondary \in MergeSecondaries :
          MergeLeads(primary, secondary) /\ UNCHANGED notMatcherVars
    \/ \E gs \in AggLists, gm \in AggLists :
          Aggregate(gs, [i \in 1..Len(gm) |-> tagged(gm[i], GM)]) /\ UNCHANGED notMatcherVars
    \/ MatcherReturn /\ UNCHANGED notMatcherVars

NextFilter ==
    \/ \E ls \in FilterLists : Stage4FilterLeads(ls) /\ UNCHANGED notFilterVars

(***************************************************************************)
(* Specifications.  Each starts the machine it is about in its initial     *)
(* states and holds the other machines in one initial state of theirs.     *)
(***************************************************************************)
PipelineIdle ==
    /\ InitPipeline
    /\ sources = {GS}
    /\ ~stealth
    /\ ~include_modern
    /\ min_quality = 0

\* one initial state of the LeadFilter: the default configuration, no custom filter
FilterIdle == InitFilter /\ filter_config = DefaultFilterConfig /\ custom_filters = <<>>

\* one initial state of the ProxyManager: the constructor's default
ProxyIdle == InitProxy /\ ~px_enabled

Init == InitPipeline /\ InitMulti /\ InitLimiter /\ InitFetch /\ ProxyIdle /\ InitScanner /\ InitMatcher /\ FilterIdle

SpecPipeline == Init /\ [][NextPipeline]_vars

\* one initial state of every machine
InitOne == PipelineIdle /\ InitMulti /\ InitLimiter /\ InitFetch /\ ProxyIdle /\ InitScanner /\ InitMatcher /\ FilterIdle

SpecMulti == InitOne /\ [][NextMulti]_vars

SpecLimiter == InitOne /\ [][NextLimiter]_vars

SpecFetch == InitOne /\ [][NextFetch]_vars

\* every get comes back (its timeouts are finite) and every retry sleep ends
SpecFetchLive ==
    /\ SpecFetch
    /\ WF_vars(Attempt /\ UNCHANGED notFetchVars)
    /\ WF_vars(RetrySleepDone /\ UNCHANGED notFetchVars)

\* every initial state of the ProxyManager, one of every other machine
InitAnyProxy ==
    PipelineIdle /\ InitMulti /\ InitLimiter /\ InitFetch /\ InitProxy /\ InitScanner /\ InitMatcher /\ FilterIdle

SpecProxy == InitAnyProxy /\ [][NextProxy]_vars

SpecScanner == InitOne /\ [][NextScanner]_vars


SpecMatcher == InitOne /\ [][NextMatcher]_vars

\* every initial state of the LeadFilter, one of every other machine
InitAnyFilter ==
    PipelineIdle /\ InitMulti /\ InitLimiter /\ InitFetch /\ ProxyIdle /\ InitScanner
    /\ InitMatcher /\ InitFilter

SpecFilter == InitAnyFilter /\ [][NextFilter]_vars
(***************************************************************************)
(* Properties of Pipeline.run                                              *)
(***************************************************************************)
Done == p_pc \in {"returned", "raised"}

\* C1 (as claimed): whenever an acquire raised SessionLimitReached during run,
\* run returns normally, records no error, and the result's leads contain
\* every lead that was materialized when the condition was raised.
C1_SessionLimitKeepsLeads ==
    (slr_raised /\ Done) =>
        /\ p_pc = "returned"
        /\ result.fehler = <<>>
        /\ slr_materialized \subseteq Ids(result.leads)

Rank(ev) ==
    CASE ev = "start_1a" -> 1 [] ev = "end_1a" -> 2
      [] ev = "start_1b" -> 3 [] ev = "end_1b" -> 4
      [] ev = "start_2" -> 5  [] ev = "end_2" -> 6
      [] ev = "start_3" -> 7  [] ev = "end_3" -> 8
      [] ev = "start_4" -> 9  [] ev = "end_4" -> 10

IsStart(ev) == Rank(ev) % 2 = 1

\* the stages were entered in the order 1a, 1b, 2, 3, 4, and each one only
\* after the stage entered before it had been left
StagesInOrder(log) ==
    \A k \in 1..Len(log) :
        /\ k > 1 => Rank(log[k - 1]) < Rank(log[k])
        /\ (k > 1 /\ IsStart(log[k])) => ~IsStart(log[k - 1])
        /\ (~IsStart(log[k])) => (k > 1 /\ Rank(log[k - 1]) = Rank(log[k]) - 1)

Has(log, ev) == \E k \in 1..Len(log) : log[k] = ev

\* C5: the stages of one run execute in the order 1a, 1b, 2, 3, 4, each starting
\* only after the previous one has finished, and every lead of a normally
\* completed result has been classified (stage 3 was left before stage 4 was
\* entered, and the lead's status is terminal) and has passed the filter.
C5_StagesInOrder ==
    /\ StagesInOrder(stage_log)
    /\ exit_path = "normal" =>
          /\ Has(stage_log, "end_3") /\ Has(stage_log, "end_4")
          /\ \A k \in 1..Len(result.leads) :
                /\ result.leads[k].status \in TerminalStatus
                /\ should_include(result.leads[k])

\* a run over both sources that aggregated, classified, filtered and kept a lead
C5_Witness ==
    /\ exit_path = "normal"
    /\ stage_log = <<"start_1a", "end_1a", "start_1b", "end_1b", "start_2", "end_2",
                     "start_3", "end_3", "start_4", "end_4">>
    /\ result.leads # <<>>

\* C6: on every exit path of run the fetch client is closed and a started
\* browser is closed before control returns; run leaves on exactly one of
\* the five paths.
C6_ResourcesReleased ==
    /\ Done =>
          /\ http_client = "closed"
          /\ browser_client # "started"
          /\ exit_path \in {"normal", "no_leads", "session_limit", "error", "interrupt"}
    /\ ~Done => exit_path = "none"

\* an interrupt propagates out of run after the browser had been started
C6_Witness ==
    /\ p_pc = "raised"
    /\ exit_path = "interrupt"
    /\ browser_client = "closed"
    /\ http_client = "closed"


(***************************************************************************)
(* Properties of run_multi_branche_scrape                                  *)
(***************************************************************************)
Range(s) == {s[k] : k \in 1..Len(s)}

\* the categories the processed file holds
OnDiskProcessed == IF processed_branchen_file.exists THEN processed_branchen_file.data ELSE {}

\* the lead records the leads file holds
OnDiskLeads == IF checkpoint_file.exists THEN Range(checkpoint_file.data) ELSE {}

\* the n categories this run marked processed most recently
Recent(n) == {order[k] : k \in {j \in 1..Len(order) : j > Len(order) - n}}

\* C2: while a multi-category run with checkpoint interval N works through
\* its list, every processed category, and every accumulated lead of it, is
\* in the checkpoint files on disk, except those of at most the N-1 most
\* recently processed categories.
C2_CheckpointLag ==
    m_pc = "loop" =>
        /\ \A c \in processed_branchen :
              c \in OnDiskProcessed \/ c \in Recent(CheckpointEvery - 1)
        /\ \A k \in 1..Len(all_leads) :
              \/ lead_dump(all_leads[k]) \in OnDiskLeads
              \/ all_leads[k].branche \in Recent(CheckpointEvery - 1)

BothFilesAtStart == start_checkpoint.exists /\ start_processed.exists

C7_CooldownRespected ==
    \A h \in Hosts : last_admit[h].at >= last_admit[h].deadline

\* a wait that slept out a cooldown has returned
C7_Witness ==
    \E h \in Hosts :
        /\ last_admit[h].deadline > 0
        /\ last_admit[h].at >= last_admit[h].deadline
        /\ domain_states[h].consecutive_errors > 0

Sleeping == {"sleep_cooldown", "sleep_pace", "sleep_pause"}
WantsLock == {"call_wait", "call_report_success", "call_report_error"}

\* C10: the lock is never held across a sleep: while one caller sleeps
\* inside wait, no other caller's wait, report_success or report_error is
\* kept waiting by the lock that the sleeper holds.
C10_NoSleepUnderLock ==
    \A c \in Callers :
        l_pc[c] \in Sleeping =>
            /\ lock # c
            /\ \A d \in Callers \ {c} : l_pc[d] \in WantsLock => lock = "free"

\* C11: for the directory host, wait adds a long pause, drawn from
\* [gs_pause_min_duration, gs_pause_max_duration], exactly when the host's
\* request_count it finds is a positive multiple of
\* gs_pause_every_n_requests, on no other wait for that host, and never for
\* another host.
C11_LongPauseEveryNth ==
    \A h \in Hosts :
        last_admit[h].count >= 0 =>
            /\ last_admit[h].pause > 0 <=>
                  /\ h = GS_HOST
                  /\ last_admit[h].count > 0
                  /\ last_admit[h].count % gs_pause_every_n_requests = 0
            /\ last_admit[h].pause > 0 =>
                  /\ last_admit[h].pause >= gs_pause_min_duration
                  /\ last_admit[h].pause <= gs_pause_max_duration

\* the wait after the Nth request to the directory host has paused
C11_Witness ==
    /\ last_admit[GS_HOST].pause > 0
    /\ last_admit[GS_HOST].count = gs_pause_every_n_requests

(***************************************************************************)
(* Properties of get_with_retry                                            *)
(***************************************************************************)
Last(s) == s[Len(s)]

RetriesBounded ==
    /\ Len(responses) <= f_max_retries + 1
    /\ Len(responses) <= max_retries + 1
    /\ Len(responses) = f_max_retries + 1 => f_pc \in {"returned", "idle", "retry_sleep"}
    /\ f_pc = "retry_sleep" => f_attempt = Len(responses) - 1
    /\ \A k \in 1..Len(responses) :
          (k < Len(responses) \/ f_pc = "retry_sleep") =>
              /\ ~success(responses[k])
              /\ k - 1 < max_retries
              /\ responses[k] \in retry_status_codes

C12_UaRotatedEveryNth ==
    since_rotation <= rotate_ua_every_n_requests

(***************************************************************************)
(* Properties of the ProxyManager                                          *)
(***************************************************************************)
\* C13: get_next_proxy never returns a blocked proxy, returns a proxy
\* whenever at least one proxy of the list is unblocked, and returns None
\* when every proxy is blocked.
C13_NextSkipsBlocked ==
    last_op.op = "get_next_proxy" =>
        /\ last_next # 0 => last_next \in last_op.before
        /\ last_op.before # {} => last_next # 0
        /\ last_op.before = {} => last_next = 0

\* get_next_proxy has passed over a blocked proxy at _current_index and
\* returned the unblocked one
C13_Witness ==
    /\ last_op.op = "get_next_proxy"
    /\ last_next # 0
    /\ Len(proxies) > 1
    /\ \E i \in 1..Len(proxies) : proxies[i].is_blocked /\ i < last_next

\* C14: report_failure(proxy, block) turns an unblocked proxy into a
\* blocked one if and only if block is set or the failure count after the
\* increment has reached max_failures; no other operation, and no
\* report_failure for another proxy, blocks a proxy; after reset_blocked no
\* proxy is blocked.
C14_BlockedOnlyByFailure ==
    /\ \A i \in last_op.before :
          proxies[i].is_blocked <=>
              /\ last_op.op = "report_failure"
              /\ last_op.proxy = i
              /\ (last_op.block \/ proxies[i].failure_count >= px_max_failures)
    /\ last_op.op = "reset_blocked" => Unblocked(proxies) = 1..Len(proxies)

\* a proxy was blocked by its max_failures-th plain failure
C14_Witness ==
    /\ last_op.op = "report_failure"
    /\ ~last_op.block
    /\ last_op.proxy \in last_op.before
    /\ proxies[last_op.proxy].is_blocked
    /\ proxies[last_op.proxy].failure_count = px_max_failures
(***************************************************************************)
(* Properties of the website classifier                                    *)
(***************************************************************************)
\* C15: when the URL heuristic's result is DEFINITIV_ALT or BAUKASTEN, scan
\* has returned with the website status ALT, at every depth, without
\* having issued a HEAD or a GET, and the check methods of the result are
\* the URL heuristic alone.
C15_DecisiveUrlReturnsOld ==
    url_result.result \in {DEFINITIV_ALT, BAUKASTEN} =>
        /\ sc_pc \in {"returned", "updated"}
        /\ scan_result.website_status = WS_ALT
        /\ probes = <<>>
        /\ scan_result.check_methods = <<"url_heuristic">>

\* a builder-platform URL was classified at depth THOROUGH
C15_Witness ==
    /\ sc_pc = "returned"
    /\ depth = THOROUGH
    /\ url_result.result = BAUKASTEN
    /\ scan_result.result = SR_BAUKASTEN

\* C16: a scan issues its requests in the order HEAD, GET after the URL
\* heuristic: the HEAD is the first request, is issued after the URL
\* heuristic alone has run, never at depth FAST and never after the URL
\* heuristic said DEFINITIV_ALT or BAUKASTEN; the GET is issued only
\* directly after the HEAD of the same scan, never after a failed or
\* DEFINITIV_ALT header check; and no request is issued once the scan has
\* returned its result.
C16_StagesInOrder ==
    [][probes' # probes =>
          \/ probes' = <<>>
          \/ /\ probes = <<>>
             /\ probes' = <<"HEAD">>
             /\ check_methods = <<"url_heuristic">>
             /\ depth # FAST
             /\ url_result.result \notin {DEFINITIV_ALT, BAUKASTEN}
             /\ scan_result = NoScan
          \/ /\ probes = <<"HEAD">>
             /\ probes' = <<"HEAD", "GET">>
             /\ check_methods = <<"url_heuristic", "header_check">>
             /\ header_result.result \notin {DEFINITIV_ALT, FEHLER}
             /\ scan_result = NoScan]_vars

\* a scan ran all three stages
C16_Witness ==
    /\ sc_pc = "returned"
    /\ probes = <<"HEAD", "GET">>
    /\ check_methods = <<"url_heuristic", "header_check", "html_scan">>

\* the header check of the running scan succeeded and did not say DEFINITIV_ALT
HeaderUsable == header_result.result \in {WAHRSCHEINLICH_ALT, UNKLAR, WAHRSCHEINLICH_MODERN}

\* the HTML scan of the running scan is the next step or has run
HtmlScanRun == sc_pc = "stage3" \/ probes = <<"HEAD", "GET">>

IndicatesOld ==
    \/ url_result.result \in {WAHRSCHEINLICH_ALT, DEFINITIV_ALT}
    \/ header_result.result \in {WAHRSCHEINLICH_ALT, DEFINITIV_ALT}

IndicatesModern ==
    \/ url_result.result = WAHRSCHEINLICH_MODERN
    \/ header_result.result = WAHRSCHEINLICH_MODERN

UrlVerdict ==
    IF url_result.result = WAHRSCHEINLICH_ALT THEN WS_ALT
    ELSE IF url_result.result = WAHRSCHEINLICH_MODERN THEN WS_MODERN
    ELSE WS_UNBEKANNT

\* C18: when the header check failed (FEHLER), scan has returned the URL
\* heuristic's verdict (WAHRSCHEINLICH_ALT gives ALT, WAHRSCHEINLICH_MODERN
\* gives MODERN, UNKLAR gives UNBEKANNT) with a confidence below the URL
\* heuristic's confidence.
C18_HeaderErrorFallsBack ==
    header_result.result = FEHLER =>
        /\ sc_pc \in {"returned", "updated"}
        /\ scan_result.website_status = UrlVerdict
        /\ scan_result.confidence < url_result.confidence

\* the results the three stages can hand to _make_final_decision
UrlResults == {DEFINITIV_ALT, WAHRSCHEINLICH_ALT, UNKLAR, WAHRSCHEINLICH_MODERN, BAUKASTEN}

StageResults == {DEFINITIV_ALT, WAHRSCHEINLICH_ALT, UNKLAR, WAHRSCHEINLICH_MODERN, FEHLER}

\* the rule of the final decision, for a status and the two scores in halves
DecisionRule(status, old, modern) ==
    /\ (old >= 8 /\ modern < 8) => status = WS_ALT
    /\ (modern >= 8 /\ old < 8) => status = WS_MODERN
    /\ (old >= 8 /\ modern >= 8) => status \in {WS_ALT, WS_MODERN}
    /\ (old < 8 /\ modern < 8 /\ old > modern) => status = WS_ALT
    /\ (old < 8 /\ modern < 8 /\ modern > old) => status = WS_MODERN
    /\ (old < 8 /\ modern < 8 /\ old = modern) => status = WS_UNBEKANNT

\* _make_final_decision on every triple of stage results: what each stage
\* adds to the scores at most, and the rule
FinalDecisionOnAllResults ==
    \A u \in UrlResults, h \in StageResults, k \in StageResults :
        /\ old_score(u, UNKLAR, UNKLAR) <= 6
        /\ modern_score(u, UNKLAR, UNKLAR) <= 4
        /\ old_score(UNKLAR, h, UNKLAR) <= 6
        /\ modern_score(UNKLAR, h, UNKLAR) <= 4
        /\ old_score(UNKLAR, UNKLAR, k) <= 8
        /\ modern_score(UNKLAR, UNKLAR, k) <= 6
        /\ old_score(u, h, k) = old_score(u, UNKLAR, UNKLAR)
              + old_score(UNKLAR, h, UNKLAR) + old_score(UNKLAR, UNKLAR, k)
        /\ modern_score(u, h, k) = modern_score(u, UNKLAR, UNKLAR)
              + modern_score(UNKLAR, h, UNKLAR) + modern_score(UNKLAR, UNKLAR, k)
        /\ DecisionRule(final_decision(u, h, k).status,
                        old_score(u, h, k), modern_score(u, h, k))

\* C19: in the final decision the URL result adds at most 3 to the old and
\* 2 to the modern score, the header result at most 3 and 2, the HTML
\* result at most 4 and 3; a side whose score reaches 4 decides, if none
\* does the strictly higher score wins, and equal scores below 4 give
\* UNBEKANNT.  It holds of _make_final_decision on every triple of stage
\* results and of every scan that reached the final decision.
C19_WeightedDecision ==
    /\ FinalDecisionOnAllResults
    /\ (sc_pc \in {"returned", "updated"} /\ html_result # NoResult) =>
          DecisionRule(scan_result.website_status,
                       old_score(url_result.result, header_result.result,
                                 html_result.result),
                       modern_score(url_result.result, header_result.result,
                                    html_result.result))

\* a scan whose URL and header results are modern and whose HTML result is
\* DEFINITIV_ALT: both scores are 4, and the result is ALT
C19_Witness ==
    /\ sc_pc = "returned"
    /\ url_result.result = WAHRSCHEINLICH_MODERN
    /\ header_result.result = WAHRSCHEINLICH_MODERN
    /\ html_result.result = DEFINITIV_ALT
    /\ scan_result.website_status = WS_ALT

\* the stages that ran in the scan behind the lead's analysis, as prefixes
StagesRun ==
    {"url"}
    \cup (IF header_result # NoResult THEN {"header"} ELSE {})
    \cup (IF html_result # NoResult THEN {"html"} ELSE {})

\* "url:..." entries are the URL heuristic's signals, and so on, in order
SignalsCarryStagePrefix ==
    LET nu == Len(url_result.signals)
        nh == Len(header_result.signals)
        nk == Len(html_result.signals)
        sig == lead_analysis.signale
    IN  /\ Len(sig) = nu + nh + nk
        /\ \A i \in 1..nu :
              sig[i] = [prefix |-> "url", signal |-> url_result.signals[i]]
        /\ \A i \in 1..nh :
              sig[nu + i] = [prefix |-> "header", signal |-> header_result.signals[i]]
        /\ \A i \in 1..nk :
              sig[nu + nh + i] = [prefix |-> "html", signal |-> html_result.signals[i]]

\* the prefixes that occur in the lead's signal list
PrefixesPresent ==
    {lead_analysis.signale[i].prefix : i \in 1..Len(lead_analysis.signale)}

\* the check methods recorded on the lead, as the set of their prefixes
MethodsRecorded ==
    IF lead_analysis.check_methode = "url_heuristic" THEN {"url"}
    ELSE IF lead_analysis.check_methode = "url_heuristic,header_check"
    THEN {"url", "header"}
    ELSE IF lead_analysis.check_methode = "url_heuristic,header_check,html_scan"
    THEN {"url", "header", "html"}
    ELSE {"unreadable"}

\* C20, as stated: for a classified lead every signal carries the prefix of
\* its stage and the recorded check methods are exactly the prefixes that
\* occur in the signal list.
C20_MethodsAreThePrefixes ==
    sc_pc = "updated" =>
        /\ SignalsCarryStagePrefix
        /\ MethodsRecorded = PrefixesPresent

\* C20, amended: for a classified lead every signal carries the prefix of
\* its stage, the recorded check methods are exactly the stages that ran,
\* and every prefix that occurs in the signal list is one of them.
C20_MethodsAreTheStagesRun ==
    sc_pc = "updated" =>
        /\ SignalsCarryStagePrefix
        /\ MethodsRecorded = StagesRun
        /\ PrefixesPresent \subseteq MethodsRecorded

\* a lead classified by all three stages, two of which gave signals
C20_Witness ==
    /\ sc_pc = "updated"
    /\ MethodsRecorded = {"url", "header", "html"}
    /\ PrefixesPresent = {"header", "html"}
(***************************************************************************)
(* Properties of the leads on their way through Pipeline.run               *)
(***************************************************************************)
\* the leads run holds: the scraped lists until stage 2 bound leads
LeadsNow == IF leads_defined THEN leads ELSE gs_leads \o gm_leads

C25_NormalizePhoneIdempotent ==
    mt_pc = "renormalized" => digits_again = digits

\* the two leads have the same normalized phone number
SharePhone ==
    /\ normalize_phone(lead_a.telefon) # <<>>
    /\ normalize_phone(lead_a.telefon) = normalize_phone(lead_b.telefon)

\* the normalized names match with at least 0.85 and the postal codes are equal
NameAndPlz ==
    /\ is_name_match(lead_a.firmenname, lead_b.firmenname).is_match
    /\ RatGE(is_name_match(lead_a.firmenname, lead_b.firmenname).confidence, Rat(85, 100))
    /\ lead_a.adresse.plz = lead_b.adresse.plz

\* C22, as stated: a duplicate decision with confidence >= 0.95 is one between
\* two records with equal normalized phone numbers, or with a normalized-name
\* match of at least 0.85 and equal postal codes.
C22_HighConfidenceHasGrounds ==
    (/\ mt_pc = "matched"
     /\ match_result.is_match
     /\ RatGE(match_result.confidence, Rat(95, 100))) => (SharePhone \/ NameAndPlz)

\* a field of the merge: one present in primary is kept, and where the result
\* differs from primary the field was empty and the value is the secondary's
PrimaryWinsOn(primary, secondary, outcome, empty) ==
    /\ ~empty => outcome = primary
    /\ outcome # primary => (empty /\ outcome = secondary)

\* C23, as stated: merge(primary, secondary) leaves every field that is present
\* in primary unchanged, and a value of secondary for phone, email, website,
\* rating, opening hours or an address sub-field appears only where the field
\* of primary is empty.  (The source set and the map identifiers are not
\* among these fields: the merge is to unite and attach them.)
C23_PrimaryWins ==
    mt_pc = "merged" =>
        /\ merged.firmenname = lead_a.firmenname
        /\ merged.adresse.stadt = lead_a.adresse.stadt
        /\ merged.gelbe_seiten_url = lead_a.gelbe_seiten_url
        /\ PrimaryWinsOn(lead_a.telefon, lead_b.telefon, merged.telefon,
                         lead_a.telefon = <<>>)
        /\ PrimaryWinsOn(lead_a.email, lead_b.email, merged.email, lead_a.email = "")
        /\ PrimaryWinsOn(lead_a.website_url, lead_b.website_url, merged.website_url,
                         lead_a.website_url = "")
        /\ PrimaryWinsOn(lead_a.oeffnungszeiten, lead_b.oeffnungszeiten,
                         merged.oeffnungszeiten, lead_a.oeffnungszeiten = "")
        /\ PrimaryWinsOn(lead_a.bewertung, lead_b.bewertung, merged.bewertung,
                         lead_a.bewertung = NoRating)
        /\ PrimaryWinsOn(lead_a.bewertung_anzahl, lead_b.bewertung_anzahl,
                         merged.bewertung_anzahl, lead_a.bewertung_anzahl = NoRating)
        /\ PrimaryWinsOn(lead_a.adresse.strasse, lead_b.adresse.strasse,
                         merged.adresse.strasse, lead_a.adresse.strasse = <<>>)
        /\ PrimaryWinsOn(lead_a.adresse.hausnummer, lead_b.adresse.hausnummer,
                         merged.adresse.hausnummer, lead_a.adresse.hausnummer = <<>>)
        /\ PrimaryWinsOn(lead_a.adresse.plz, lead_b.adresse.plz, merged.adresse.plz,
                         lead_a.adresse.plz = <<>>)

\* the same business data, whatever the source tags and identifiers
SameLead(x, y) ==
    /\ x.firmenname = y.firmenname
    /\ x.telefon = y.telefon
    /\ x.adresse = y.adresse

\* aggregate was handed one list twice, once as each source reports it
SameListTwice ==
    /\ Len(agg_gm) = Len(agg_gs)
    /\ \A i \in 1..Len(agg_gs) : agg_gm[i] = tagged(agg_gs[i], GM)

\* C24, as stated: aggregate(X, X) returns the leads of X, as many and in the
\* same order, each carrying both source tags, and reports duplicates_found = |X|.
C24_SelfAggregation ==
    (mt_pc = "aggregated" /\ SameListTwice) =>
        /\ Len(agg_result) = Len(agg_gs)
        /\ \A i \in 1..Len(agg_gs) :
              /\ SameLead(agg_result[i], agg_gs[i])
              /\ agg_result[i].quellen = {GS, GM}
        /\ agg_stats.duplicates_found = Len(agg_gs)

(***************************************************************************)
(* Claims about the LeadFilter and stage 4.                                *)
(***************************************************************************)
\* the gates, stated on the configuration and the lead
PassesVerdict(lead) ==
    /\ lead.status = "keine" => filter_config.include_no_website
    /\ lead.status = "alt" => filter_config.include_old_website
    /\ lead.status = "modern" => filter_config.include_modern_website
    /\ lead.status = "unbekannt" => filter_config.include_unknown_website

PassesQuality(lead) == lead_score(lead) >= filter_config.min_quality_score

PassesRequired(lead) ==
    /\ filter_config.require_phone => lead.telefon
    /\ filter_config.require_email => lead.email
    /\ filter_config.require_address => (lead.strasse /\ lead.plz)

PassesCustom(lead) ==
    \A k \in 1..Len(custom_filters) :
        custom_filters[k] = "blacklist" => lead.firmenname \notin Blacklisted

PassesEveryGate(lead) ==
    PassesVerdict(lead) /\ PassesQuality(lead) /\ PassesRequired(lead) /\ PassesCustom(lead)

\* the first gate the lead fails, in the order verdict, quality, required fields, custom
FirstFailedGate(lead) ==
    IF ~PassesVerdict(lead) THEN "verdict"
    ELSE IF ~PassesQuality(lead) THEN "quality"
    ELSE IF ~PassesRequired(lead) THEN "required"
    ELSE IF ~PassesCustom(lead) THEN "custom"
    ELSE "none"

\* the gate a reason comes from
GateOfReason(reason) ==
    IF reason.name \in {"website_status_keine", "website_status_alt", "website_status_modern",
                        "website_status_unbekannt"} THEN "verdict"
    ELSE IF reason.name = "quality_score_too_low" THEN "quality"
    ELSE IF reason.name \in {"missing_phone", "missing_email", "missing_address"} THEN "required"
    ELSE IF reason.name = "blacklist_firma c" THEN "custom"
    ELSE "none"

\* C26: filter_leads returns, in input order, exactly the leads that pass every
\* gate (verdict toggles, minimum quality, required fields, custom filters), and
\* the reason recorded for a rejected lead is that of the first gate it fails
\* in that order.
C26_FilterGatesInOrder ==
    fl_pc = "returned" =>
        /\ filtered = SelectSeq(stage4_leads, PassesEveryGate)
        /\ \A i \in 1..Len(stage4_leads) :
              /\ filter_results[i].included = PassesEveryGate(stage4_leads[i])
              /\ GateOfReason(filter_results[i].reason) = FirstFailedGate(stage4_leads[i])
              /\ ~filter_results[i].included =>
                    /\ filter_results[i].reason \in DOMAIN exclusion_reasons
                    /\ exclusion_reasons[filter_results[i].reason] =
                          Cardinality({k \in 1..Len(stage4_leads) :
                                          filter_results[k] = filter_results[i]})

\* a lead that fails the verdict, the quality and the required-field gate was
\* rejected for its verdict, and another lead was kept
C26_Witness ==
    /\ fl_pc = "returned"
    /\ Len(filtered) = 1
    /\ \E i \in 1..Len(stage4_leads) :
          /\ ~PassesVerdict(stage4_leads[i])
          /\ ~PassesQuality(stage4_leads[i])
          /\ ~PassesRequired(stage4_leads[i])
          /\ filter_results[i].reason.name = "website_status_modern"

\* the place of a name in the order of names
NameRank(name) == CHOOSE k \in 1..Len(NameOrder) : NameOrder[k] = name

\* the list falls in quality
QualityDescending(ls) ==
    \A i, j \in 1..Len(ls) : i < j => lead_score(ls[i]) >= lead_score(ls[j])

\* C27, as stated: the list stage 4 emits is sorted by quality score in
\* descending order, and leads of equal score are ordered by name.
C27_SortedTiesByName ==
    fl_pc = "returned" =>
        /\ QualityDescending(stage4_result)
        /\ \A i, j \in 1..Len(stage4_result) :
              (i < j /\ lead_score(stage4_result[i]) = lead_score(stage4_result[j])) =>
                  NameRank(stage4_result[i].firmenname) <= NameRank(stage4_result[j].firmenname)

\* C27, amended: the list stage 4 emits is sorted by quality score in descending
\* order, and leads of equal score keep the order filter_leads returned them in.
C27_SortedTiesInInputOrder ==
    fl_pc = "returned" =>
        /\ QualityDescending(stage4_result)
        /\ \A l \in FilterLeads :
              SelectSeq(stage4_result, LAMBDA x : lead_score(x) = lead_score(l))
                  = SelectSeq(filtered, LAMBDA x : lead_score(x) = lead_score(l))
        /\ Len(stage4_result) = Len(filtered)

\* two leads of equal score were emitted against the order of their names
C27_Witness ==
    /\ fl_pc = "returned"
    /\ Len(stage4_result) = 2
    /\ lead_score(stage4_result[1]) = lead_score(stage4_result[2])
    /\ NameRank(stage4_result[1].firmenname) > NameRank(stage4_result[2].firmenname)
(***************************************************************************)
(* What a run reports of the fetches that failed                           *)
(***************************************************************************)
\* the error strings of the ScrapingResult
Fehler == {result.fehler[i] : i \in 1..Len(result.fehler)}

\* run has returned its result without an exception
Returned == exit_path \in {"normal", "no_leads"}

\* C28: a search page or detail page whose fetch still fails after the
\* retries is recorded as an error string in the error list of the run's
\* result, and the run goes on with the remaining pages and listings: when
\* run returns without an exception, every error the scraper noted is in
\* result.fehler.
C28_FetchFailureRecorded ==
    Returned => \A i \in 1..Len(scraper_errors) : scraper_errors[i] \in Fehler

(***************************************************************************)
(* What a multi-category run does with the leads of a category             *)
(***************************************************************************)
\* the businesses of the accumulated leads
AccumulatedKeys == {all_leads[k].key : k \in 1..Len(all_leads)}

\* the category at m_idx was worked through and marked
CategoryMarked == m_pc = "loop" /\ order' # order

\* C29: in a multi-category run every lead a category's pipeline returned
\* that is no duplicate of an accumulated lead (it is of another business
\* than each of them) is appended to the accumulated list, however many
\* leads the earlier categories have accumulated.
C29_NewLeadsAppended ==
    [][CategoryMarked =>
          \A j \in 1..Len(branche_leads') :
              branche_leads'[j].key \notin AccumulatedKeys =>
                  branche_leads'[j] \in Range(all_leads')]_vars

\* C30: in a multi-category run a category is added to the processed set
\* (and so written to the checkpoint and skipped on resume) only if its
\* pipeline run and the merging of its leads into the accumulated list
\* completed without raising an error.
C30_ProcessedOnlyWithoutError ==
    /\ Range(order) \cap raised = {}
    /\ m_pc = "loop" => (processed_branchen \cap raised = {})

====
